---- MODULE Spec2Model ----
(***************************************************************************)
(* A model of sketch-ui-generator: the node constructors and the assembler *)
(* (sketch-generator.cjs), the structural validator (sketch-validator.cjs) *)
(* and the packer (packSketch) writing to a file system shared by several  *)
(* export invocations.                                                     *)
(*                                                                         *)
(* JavaScript values are tagged records:                                   *)
(*   [k |-> "undef"], [k |-> "null"], [k |-> "bool", b |-> BOOLEAN],       *)
(*   [k |-> "num", n |-> Int, d |-> Nat]   the rational n/d; d = 0 is a    *)
(*                                         non-finite number (n = 0: NaN), *)
(*   [k |-> "str", s |-> tokens]  a string as the sequence of its tokens   *)
(*                                (single characters wherever the code     *)
(*                                looks inside the string),                *)
(*   [k |-> "arr", a |-> sequence of values],                              *)
(*   [k |-> "obj", f |-> record of values]  an object with fixed keys,     *)
(*   [k |-> "map", m |-> sequence of <<key string, value>>]  an object     *)
(*                                whose keys are computed (identifiers).   *)
(***************************************************************************)
EXTENDS Integers, Sequences, FiniteSets, TLC

VARIABLES
  now,      \* the latest value Date.now() returned (milliseconds)
  fs,       \* the file system: path |-> [type |-> "dir"] or a file
  pc,       \* per export invocation: its position in exportSketch/packSketch
  inv,      \* per export invocation: its locals
  vin,      \* the value (or directory) under validation; in SpecF the
            \* arguments of the function that is called
  vout,     \* what the last validate* call returned; in SpecF what the
            \* function returned
  vstep     \* validator harness: number of edits made to vin

vars == <<now, fs, pc, inv, vin, vout, vstep>>

----------------------------------------------------------------------------
(* JavaScript values *)

Undef == [k |-> "undef"]
Null == [k |-> "null"]
Bool(b) == [k |-> "bool", b |-> b]
JTrue == Bool(TRUE)
JFalse == Bool(FALSE)
Str(tokens) == [k |-> "str", s |-> tokens]
S(word) == [k |-> "str", s |-> <<word>>]
EmptyStr == Str(<<>>)
Arr(seq) == [k |-> "arr", a |-> seq]
Obj(rec) == [k |-> "obj", f |-> rec]
Map(entries) == [k |-> "map", m |-> entries]

RECURSIVE Gcd(_, _)
Gcd(a, b) == IF b = 0 THEN a ELSE Gcd(b, a % b)

Abs(i) == IF i < 0 THEN -i ELSE i

\* the number n/d in lowest terms, d > 0; a zero denominator is NaN
Frac(n, d) ==
  IF d = 0 THEN [k |-> "num", n |-> 0, d |-> 0]
  ELSE LET g == Gcd(Abs(n), Abs(d))
           sgn == IF d < 0 THEN -1 ELSE 1
       IN [k |-> "num", n |-> sgn * (n \div g), d |-> sgn * (d \div g)]
Num(n) == [k |-> "num", n |-> n, d |-> 1]
NaN == [k |-> "num", n |-> 0, d |-> 0]

IsNum(v) == v.k = "num"
IsFinite(v) == v.k = "num" /\ v.d # 0

\* typeof v
TypeOf(v) ==
  CASE v.k = "undef" -> "undefined"
    [] v.k = "bool" -> "boolean"
    [] v.k = "num" -> "number"
    [] v.k = "str" -> "string"
    [] OTHER -> "object"

\* ToBoolean(v): what `if (v)`, `!v` and `v || w` test
Truthy(v) ==
  CASE v.k = "undef" -> FALSE
    [] v.k = "null" -> FALSE
    [] v.k = "bool" -> v.b
    [] v.k = "num" -> v.d # 0 /\ v.n # 0
    [] v.k = "str" -> Len(v.s) > 0
    [] OTHER -> TRUE

\* v || w
OrElse(v, w) == IF Truthy(v) THEN v ELSE w

\* Array.isArray(v)
IsArray(v) == v.k = "arr"

\* `!v || typeof v !== 'object'` is false: v is an object or an array
IsObjectLike(v) == Truthy(v) /\ TypeOf(v) = "object"

\* reading a property of null or undefined throws a TypeError
Nullish(v) == v.k \in {"undef", "null"}

RECURSIVE MapIndex(_, _, _)
MapIndex(entries, key, i) ==
  IF i > Len(entries) THEN 0
  ELSE IF entries[i][1] = key THEN i
  ELSE MapIndex(entries, key, i + 1)

\* v[key] for a computed key (a string value)
GetKey(v, key) ==
  IF v.k = "map"
  THEN LET i == MapIndex(v.m, key, 1) IN IF i = 0 THEN Undef ELSE v.m[i][2]
  ELSE IF v.k = "obj" /\ Len(key.s) = 1
  THEN (IF key.s[1] \in DOMAIN v.f THEN v.f[key.s[1]] ELSE Undef)
  ELSE Undef

\* v.name of a value that is not null or undefined
Get(v, name) ==
  IF v.k = "obj" THEN (IF name \in DOMAIN v.f THEN v.f[name] ELSE Undef)
  ELSE IF v.k = "map" THEN GetKey(v, S(name))
  ELSE Undef

\* obj[key] = value for a computed key: replaces the entry or appends one
SetKey(v, key, value) ==
  LET i == MapIndex(v.m, key, 1)
  IN IF i = 0 THEN Map(Append(v.m, <<key, value>>))
     ELSE Map([v.m EXCEPT ![i] = <<key, value>>])

\* obj.name = value
Set(v, name, value) ==
  Obj([x \in DOMAIN v.f \cup {name} |-> IF x = name THEN value ELSE v.f[x]])

\* arithmetic of numbers; ToNumber(undefined) is NaN
ToNum(v) == IF v.k = "num" THEN v ELSE NaN
NumAdd(a, b) ==
  LET x == ToNum(a)
      y == ToNum(b)
  IN IF x.d = 0 \/ y.d = 0 THEN NaN ELSE Frac(x.n * y.d + y.n * x.d, x.d * y.d)
NumNeg(a) == LET x == ToNum(a) IN IF x.d = 0 THEN NaN ELSE Frac(-x.n, x.d)
NumSub(a, b) == NumAdd(a, NumNeg(b))
NumMul(a, b) ==
  LET x == ToNum(a)
      y == ToNum(b)
  IN IF x.d = 0 \/ y.d = 0 THEN NaN ELSE Frac(x.n * y.n, x.d * y.d)
NumDiv(a, b) ==
  LET x == ToNum(a)
      y == ToNum(b)
  IN IF x.d = 0 \/ y.d = 0 \/ y.n = 0 THEN NaN ELSE Frac(x.n * y.d, x.d * y.n)
\* a < b and a > b; any comparison with NaN is false
NumLt(a, b) == a.d # 0 /\ b.d # 0 /\ a.n * b.d < b.n * a.d
NumGt(a, b) == NumLt(b, a)
\* Math.round: the nearest integer, halves towards +infinity
MathRound(a) ==
  IF a.d = 0 THEN a
  ELSE LET t == 2 * a.n + a.d
           m == 2 * a.d
       IN Num((t - (t % m)) \div m)

\* string concatenation a + b
Concat(a, b) == Str(a.s \o b.s)

RECURSIVE TokenLen(_)
TokenLen(tokens) ==
  IF tokens = <<>> THEN 0 ELSE Len(Head(tokens)) + TokenLen(Tail(tokens))
\* str.length
StrLen(v) == TokenLen(v.s)

RECURSIVE TakeChars(_, _)
TakeChars(tokens, n) ==
  IF tokens = <<>> \/ Len(Head(tokens)) > n THEN <<>>
  ELSE <<Head(tokens)>> \o TakeChars(Tail(tokens), n - Len(Head(tokens)))
\* str.substring(0, n), cut at a token boundary
Substring0(v, n) == Str(TakeChars(v.s, n))

RECURSIVE IndexOfToken(_, _, _)
IndexOfToken(tokens, t, i) ==
  IF i > Len(tokens) THEN 0
  ELSE IF tokens[i] = t THEN i
  ELSE IndexOfToken(tokens, t, i + 1)
\* str.replace(word, ''): removes the first occurrence of the token
ReplaceFirst(v, word) ==
  LET i == IndexOfToken(v.s, word, 1)
  IN IF i = 0 THEN v
     ELSE Str(SubSeq(v.s, 1, i - 1) \o SubSeq(v.s, i + 1, Len(v.s)))

----------------------------------------------------------------------------
(* JSON.stringify followed by JSON.parse *)

\* what JSON.stringify writes for an array element or a property value
RECURSIVE JsonRoundTrip(_)
JsonFields(rec) == {x \in DOMAIN rec : rec[x].k # "undef"}
JsonEntries(entries) == SelectSeq(entries, LAMBDA e : e[2].k # "undef")
JsonRoundTrip(v) ==
  CASE v.k = "undef" -> Null
    [] v.k = "num" -> IF v.d = 0 THEN Null ELSE v
    [] v.k = "arr" -> Arr([i \in DOMAIN v.a |-> JsonRoundTrip(v.a[i])])
    [] v.k = "obj" -> Obj([x \in JsonFields(v.f) |-> JsonRoundTrip(v.f[x])])
    [] v.k = "map" ->
         LET kept == JsonEntries(v.m)
         IN Map([i \in DOMAIN kept |-> <<kept[i][1], JsonRoundTrip(kept[i][2])>>])
    [] OTHER -> v

----------------------------------------------------------------------------
(* Identifiers *)

HexDigits == <<"0", "1", "2", "3", "4", "5", "6", "7",
               "8", "9", "A", "B", "C", "D", "E", "F">>
HexChars == {HexDigits[i] : i \in 1..16} \cup {"a", "b", "c", "d", "e", "f"}

\* Math.random() in sixteenths, for the j-th draw of the callNo-th
\* generateUUID call: the first two draws spell the call number
RandomDraws(callNo) ==
  [j \in 1..32 |->
     IF j = 1 THEN (callNo \div 16) % 16
     ELSE IF j = 2 THEN callNo % 16
     ELSE (7 * j + 3) % 16]

\* generateUUID as it would be if index 19 took any hexadecimal digit
GenerateUUIDAnyVariant(r) ==
  Str([p \in 1..36 |->
       IF p - 1 \in {8, 13, 18, 23} THEN "-"
       ELSE IF p - 1 = 14 THEN "4"
       ELSE HexDigits[r[((p - 1) % 31) + 1] + 1]])

\* generateUUID with the draws r[1], r[2], ... of Math.random(), each
\* given as floor(16 * Math.random())
GenerateUUID(r) ==
  LET draw(i) ==
        \* draws consumed before index i: one per non-fixed position
        i - (IF i > 8 THEN 1 ELSE 0) - (IF i > 13 THEN 1 ELSE 0)
          - (IF i > 14 THEN 1 ELSE 0) - (IF i > 18 THEN 1 ELSE 0)
          - (IF i > 23 THEN 1 ELSE 0) + 1
  IN Str([p \in 1..36 |->
       LET i == p - 1
       IN IF i \in {8, 13, 18, 23} THEN "-"
          ELSE IF i = 14 THEN "4"
          ELSE IF i = 19 THEN HexDigits[8 + (r[draw(i)] \div 4) + 1]
          ELSE HexDigits[r[draw(i)] + 1]])

UUID(callNo) == GenerateUUID(RandomDraws(callNo))

\* isValidUUID: the regular expression, case-insensitive
IsValidUUID(v) ==
  /\ v.k = "str"
  /\ Len(v.s) = 36
  /\ \A p \in 1..36 :
       LET i == p - 1
           c == v.s[p]
       IN IF i \in {8, 13, 18, 23} THEN c = "-"
          ELSE IF i = 14 THEN c = "4"
          ELSE IF i = 19 THEN c \in {"8", "9", "A", "B", "a", "b"}
          ELSE c \in HexChars

----------------------------------------------------------------------------
(* Colours *)

HexValue(c) ==
  CASE c \in {"a", "A"} -> 10
    [] c \in {"b", "B"} -> 11
    [] c \in {"c", "C"} -> 12
    [] c \in {"d", "D"} -> 13
    [] c \in {"e", "E"} -> 14
    [] c \in {"f", "F"} -> 15
    [] OTHER -> CHOOSE i \in 0..9 : HexDigits[i + 1] = c

RECURSIVE SkipSpaces(_)
SkipSpaces(cs) == IF cs # <<>> /\ Head(cs) = " " THEN SkipSpaces(Tail(cs)) ELSE cs

RECURSIVE HexPrefix(_)
HexPrefix(cs) ==
  IF cs # <<>> /\ Head(cs) \in HexChars THEN <<Head(cs)>> \o HexPrefix(Tail(cs))
  ELSE <<>>

RECURSIVE HexNumber(_, _)
HexNumber(cs, acc) ==
  IF cs = <<>> THEN acc ELSE HexNumber(Tail(cs), 16 * acc + HexValue(Head(cs)))

\* parseInt(chars, 16): white space, a sign, an optional 0x, then the
\* longest run of hex digits; NaN when there is none
ParseInt16(chars) ==
  LET t == SkipSpaces(chars)
      neg == t # <<>> /\ Head(t) = "-"
      u == IF t # <<>> /\ Head(t) \in {"-", "+"} THEN Tail(t) ELSE t
      w == IF Len(u) >= 2 /\ u[1] = "0" /\ u[2] \in {"x", "X"}
           THEN Tail(Tail(u)) ELSE u
      ds == HexPrefix(w)
  IN IF ds = <<>> THEN NaN
     ELSE Num((IF neg THEN -1 ELSE 1) * HexNumber(ds, 0))

\* str.substr(from, 2) of a sequence of characters (from is 0-based)
Substr2(cs, from) ==
  SubSeq(cs, from + 1, IF from + 2 <= Len(cs) THEN from + 2 ELSE Len(cs))

Color(r, g, b, a) ==
  Obj([_class |-> S("color"), alpha |-> a, red |-> r, green |-> g, blue |-> b])
Black == Color(Num(0), Num(0), Num(0), Num(1))

parseColor(colorStr) ==
  IF ~Truthy(colorStr) \/ TypeOf(colorStr) # "string" THEN Black
  ELSE IF Head(colorStr.s) = "#"
  THEN LET hex == Tail(colorStr.s)
           r == NumDiv(ParseInt16(Substr2(hex, 0)), Num(255))
           g == NumDiv(ParseInt16(Substr2(hex, 2)), Num(255))
           b == NumDiv(ParseInt16(Substr2(hex, 4)), Num(255))
       IN Color(OrElse(r, Num(0)), OrElse(g, Num(0)), OrElse(b, Num(0)), Num(1))
  ELSE Black

----------------------------------------------------------------------------
(* Node constructors (sketch-generator.cjs) *)

SKETCH_VERSION == S("74.1")
SKETCH_BUILD == 128920
RESIZING_NONE == 63

\* CHINESE_FONT_MAP[fontFamily] || 'PingFangSC-Regular'
ChineseFont(fontFamily) ==
  IF fontFamily \in {S("Roboto-Bold"), S("Roboto-Regular"),
                     S("Roboto-Medium"), S("Roboto-Light")}
  THEN S("PingFangSC-Regular")
  ELSE S("PingFangSC-Regular")

\* The characters of the model's alphabet in U+4E00..U+9FA5, written as
\* one-character stand-ins: "@" U+6211, "%" U+7684, "&" U+8BA2, "$" U+5355,
\* "^" U+65B0, "~" U+589E
CJKChars == {"@", "%", "&", "$", "^", "~"}
\* /[\u4e00-\u9fa5]/.test(text)
HasChinese(text) == \E i \in DOMAIN text.s : text.s[i] \in CJKChars

ExportOptions ==
  Obj([_class |-> S("exportOptions"), exportFormats |-> Arr(<<>>),
       includedLayerIds |-> Arr(<<>>), layerOptions |-> Num(0),
       shouldTrim |-> JFalse])

\* frame is a record of the four values x, y, width, height
createLayerBase(classType, frame, options, callNo) ==
  Obj([_class |-> S(classType),
       do_objectID |-> UUID(callNo),
       frame |-> Obj([_class |-> S("rect"),
                      x |-> frame.x, y |-> frame.y,
                      width |-> frame.width, height |-> frame.height,
                      constrainProportions |->
                        OrElse(Get(options, "constrainProportions"), JFalse)]),
       resizingConstraint |-> Num(RESIZING_NONE),
       resizingType |-> Num(0),
       rotation |-> Num(0),
       shouldBreakMaskChain |-> JFalse,
       booleanOperation |-> Num(-1),
       exportOptions |-> ExportOptions,
       isFixedToViewport |-> JFalse,
       isFlippedHorizontal |-> JFalse,
       isFlippedVertical |-> JFalse,
       isLocked |-> JFalse,
       isVisible |-> JTrue,
       isTemplate |-> JFalse,
       layerListExpandedType |-> Num(0),
       nameIsFixed |-> JFalse])

ContextSettings ==
  Obj([_class |-> S("graphicsContextSettings"), blendMode |-> Num(0),
       opacity |-> Num(1)])

FillOf(color) ==
  Obj([_class |-> S("fill"), isEnabled |-> JTrue, color |-> parseColor(color),
       fillType |-> Num(0), noiseIndex |-> Num(0), noiseIntensity |-> Num(0),
       patternFillType |-> Num(1), patternTileScale |-> Num(1),
       gradient |-> Obj([_class |-> S("gradient"), elipseLength |-> Num(0),
                         from |-> S("{0.500000, 0.000000}"),
                         to |-> S("{0.500000, 1.000000}"),
                         gradientType |-> Num(0), stops |-> Arr(<<>>)]),
       contextSettings |-> ContextSettings])

TextStyleOf(options) ==
  LET fontSize == OrElse(Get(options, "displayFontSize"),
                         OrElse(Get(options, "fontSize"), Num(16)))
      fontFamily == OrElse(Get(options, "fontFamily"), S("Roboto-Regular"))
      alignment == OrElse(Get(options, "alignment"), Num(0))
      verticalAlignment == IF Get(options, "verticalAlignment").k # "undef"
                           THEN Get(options, "verticalAlignment") ELSE Num(0)
      textColor == OrElse(Get(options, "color"), Black)
  IN Obj([_class |-> S("textStyle"),
          verticalAlignment |-> verticalAlignment,
          encodeAttributes |-> Obj([
            MSAttributedStringFontAttribute |-> Obj([
              _class |-> S("fontDescriptor"),
              attributes |-> Obj([name |-> fontFamily, size |-> fontSize])]),
            paragraphStyle |-> Obj([
              _class |-> S("paragraphStyle"),
              alignment |-> alignment,
              maximumLineHeight |-> NumMul(fontSize, Frac(12, 10)),
              minimumLineHeight |-> NumMul(fontSize, Frac(12, 10)),
              paragraphSpacing |-> Num(0)]),
            textStyleVerticalAlignmentKey |-> verticalAlignment,
            MSAttributedStringColorAttribute |-> textColor])])

\* options is a JavaScript object
createStyle(options, callNo) ==
  LET fills == Get(options, "fills")
      base == [
        _class |-> S("style"),
        do_objectID |-> UUID(callNo),
        blur |-> Obj([_class |-> S("blur"), isEnabled |-> JFalse,
                      center |-> S("{0.500000, 0.500000}"),
                      saturation |-> Num(1), type |-> Num(0),
                      motionAngle |-> Num(0), radius |-> Num(10)]),
        borders |->
          IF Truthy(Get(options, "borderColor"))
          THEN Arr(<<Obj([_class |-> S("border"), isEnabled |-> JTrue,
                          color |-> parseColor(Get(options, "borderColor")),
                          fillType |-> Num(0),
                          position |-> OrElse(Get(options, "borderPosition"), Num(1)),
                          thickness |-> OrElse(Get(options, "borderWidth"), Num(1)),
                          contextSettings |-> ContextSettings])>>)
          ELSE Arr(<<>>),
        fills |->
          IF Truthy(fills) /\ fills.k = "arr" /\ Len(fills.a) > 0
          THEN Arr([i \in DOMAIN fills.a |-> FillOf(fills.a[i])])
          ELSE Arr(<<>>),
        shadows |->
          IF Truthy(Get(options, "shadow"))
          THEN Arr(<<Obj([_class |-> S("shadow"),
                          color |-> Color(Num(0), Num(0), Num(0), Frac(15, 100)),
                          offsetX |-> Num(0),
                          offsetY |-> OrElse(Get(Get(options, "shadow"), "offsetY"), Num(4)),
                          blurRadius |-> OrElse(Get(Get(options, "shadow"), "blur"), Num(12)),
                          spread |-> Num(0)])>>)
          ELSE Arr(<<>>),
        innerShadows |-> Arr(<<>>),
        contextSettings |-> ContextSettings,
        startMarkerType |-> Num(0),
        endMarkerType |-> Num(0),
        miterLimit |-> Num(10),
        windingRule |-> Num(1),
        colorControls |-> Obj([_class |-> S("colorControls"), isEnabled |-> JFalse,
                               brightness |-> Num(0), contrast |-> Num(1),
                               hue |-> Num(0), saturation |-> Num(1)]),
        borderOptions |-> Obj([_class |-> S("borderOptions"), isEnabled |-> JTrue,
                               lineCapStyle |-> Num(0), lineJoinStyle |-> Num(0),
                               dashPattern |-> Arr(<<>>)])]
  IN IF \/ Truthy(Get(options, "fontFamily"))
        \/ Truthy(Get(options, "displayFontSize"))
        \/ Truthy(Get(options, "color"))
     THEN Set(Obj(base), "textStyle", TextStyleOf(options))
     ELSE Obj(base)

CurvePoint(cornerRadius, at) ==
  Obj([_class |-> S("curvePoint"), cornerRadius |-> cornerRadius,
       curveFrom |-> at, curveMode |-> Num(1), curveTo |-> at,
       hasCurveFrom |-> JFalse, hasCurveTo |-> JFalse, point |-> at])

\* the point string "{x, y}", character by character
PointStr(x, y) == Str(<<"{", x, ",", " ", y, "}">>)

CornerPoints(cornerRadius) ==
  Arr(<<CurvePoint(cornerRadius, PointStr("0", "0")),
        CurvePoint(cornerRadius, PointStr("1", "0")),
        CurvePoint(cornerRadius, PointStr("1", "1")),
        CurvePoint(cornerRadius, PointStr("0", "1"))>>)

\* the rectangle-specific fields set on a layer base
RectangleFields(layer, name, hasClippingMask, cornerRadius, style) ==
  Obj([x \in DOMAIN layer.f \cup
         {"name", "edited", "isClosed", "pointRadiusBehaviour", "hasClippingMask",
          "clippingMaskMode", "fixedRadius", "hasConvertedToNewRoundCorners",
          "needsConvertionToNewRoundCorners", "points", "style"} |->
       CASE x = "name" -> name
         [] x = "edited" -> JFalse
         [] x = "isClosed" -> JTrue
         [] x = "pointRadiusBehaviour" -> Num(1)
         [] x = "hasClippingMask" -> Bool(hasClippingMask)
         [] x = "clippingMaskMode" -> Num(0)
         [] x = "fixedRadius" -> cornerRadius
         [] x = "hasConvertedToNewRoundCorners" -> JTrue
         [] x = "needsConvertionToNewRoundCorners" -> JFalse
         [] x = "points" -> CornerPoints(cornerRadius)
         [] x = "style" -> style
         [] OTHER -> layer.f[x]])

\* style is a JavaScript object; uses identifiers callNo and callNo + 1
createRectangle(frame, style, name, callNo) ==
  LET cornerRadius == OrElse(Get(style, "cornerRadius"), Num(0))
      layer == createLayerBase("rectangle", frame,
                 Obj([constrainProportions |->
                        OrElse(Get(style, "constrainProportions"), JFalse)]),
                 callNo)
  IN RectangleFields(layer, name, FALSE, cornerRadius,
                     createStyle(style, callNo + 1))

\* a background rectangle that is no clipping mask
createBackgroundRectUnclipped(frame, backgroundColor, callNo) ==
  RectangleFields(createLayerBase("rectangle", frame, Obj([none |-> Undef]), callNo),
                  S("background"), FALSE, Num(0),
                  createStyle(Obj([fills |-> Arr(<<backgroundColor>>)]), callNo + 1))

createBackgroundRect(frame, backgroundColor, callNo) ==
  RectangleFields(createLayerBase("rectangle", frame, Obj([none |-> Undef]), callNo),
                  S("background"), TRUE, Num(0),
                  createStyle(Obj([fills |-> Arr(<<backgroundColor>>)]), callNo + 1))

\* style.alignment === "center" ? 2 : style.alignment === "right" ? 1 : 0
AlignmentOf(style) ==
  IF Get(style, "alignment") = S("center") THEN Num(2)
  ELSE IF Get(style, "alignment") = S("right") THEN Num(1)
  ELSE Num(0)

\* text must be a string: text.substring of anything else throws
createText(text, frame, style, callNo) ==
  LET layer == createLayerBase("text", frame, Obj([none |-> Undef]), callNo)
      color == IF Truthy(Get(style, "color")) THEN parseColor(Get(style, "color"))
               ELSE Black
      fontSize == OrElse(Get(style, "fontSize"), Num(16))
      fontFamily == OrElse(Get(style, "fontFamily"), S("Roboto-Regular"))
      alignment == AlignmentOf(style)
      hasChinese == HasChinese(text)
      displayFontFamily == IF hasChinese THEN ChineseFont(fontFamily) ELSE fontFamily
      displayFontSize == IF hasChinese THEN MathRound(NumMul(fontSize, Frac(12, 10)))
                         ELSE fontSize
      attributedString ==
        Obj([_class |-> S("attributedString"),
             string |-> text,
             attributes |-> Arr(<<Obj([
               _class |-> S("stringAttribute"),
               location |-> Num(0),
               length |-> Num(StrLen(text)),
               attributes |-> Obj([
                 MSAttributedStringFontAttribute |-> Obj([
                   _class |-> S("fontDescriptor"),
                   attributes |-> Obj([name |-> fontFamily, size |-> fontSize])]),
                 kerning |-> Num(0),
                 MSAttributedStringColorAttribute |-> color,
                 paragraphStyle |-> Obj([
                   _class |-> S("paragraphStyle"),
                   alignment |-> alignment,
                   maximumLineHeight |-> NumMul(fontSize, Frac(12, 10)),
                   minimumLineHeight |-> NumMul(fontSize, Frac(12, 10)),
                   paragraphSpacing |-> Num(0),
                   lineHeightMultiple |-> Frac(12, 10),
                   allowsDefaultTighteningForTruncation |-> Num(0)]),
                 textStyleVerticalAlignmentKey |-> Num(2),
                 MSAttributedStringTextTransformAttribute |-> Num(0),
                 underlineStyle |-> Num(0),
                 strikethroughStyle |-> Num(0)])])>>)])
      styleOptions ==
        Obj([fills |-> Arr(<<>>), color |-> color, fontSize |-> fontSize,
             fontFamily |-> displayFontFamily, displayFontSize |-> displayFontSize,
             alignment |-> alignment, verticalAlignment |-> Num(0)])
  IN Obj([x \in DOMAIN layer.f \cup
            {"name", "attributedString", "textBehaviour", "glyphBounds",
             "lineSpacingBehaviour", "automaticallyDrawOnUnderlyingPath",
             "dontSynchroniseWithSymbol", "style"} |->
          CASE x = "name" -> OrElse(Substring0(text, 30), S("Text"))
            [] x = "attributedString" -> attributedString
            [] x = "textBehaviour" -> Num(0)
            [] x = "glyphBounds" -> EmptyStr
            [] x = "lineSpacingBehaviour" -> Num(1)
            [] x = "automaticallyDrawOnUnderlyingPath" -> JFalse
            [] x = "dontSynchroniseWithSymbol" -> JTrue
            [] x = "style" -> createStyle(styleOptions, callNo + 1)
            [] OTHER -> layer.f[x]])

RulerData == Obj([_class |-> S("rulerData"), base |-> Num(0), guides |-> Arr(<<>>)])
FreeformGroupLayout == Obj([_class |-> S("MSImmutableFreeformGroupLayout")])

\* uses identifiers callNo .. callNo + 2
createArtboard(name, width, height, backgroundColor, callNo) ==
  LET frame == [x |-> Num(0), y |-> Num(0), width |-> width, height |-> height]
      layer == createLayerBase("artboard", frame, Obj([none |-> Undef]), callNo)
  IN Obj([x \in DOMAIN layer.f \cup
            {"name", "hasClickThrough", "groupLayout", "hasBackgroundColor",
             "backgroundColor", "horizontalRulerData", "verticalRulerData",
             "layers", "includeBackgroundColorInExport", "includeInCloudUpload",
             "isFlowHome", "resizesContent"} |->
          CASE x = "name" -> name
            [] x = "hasClickThrough" -> JTrue
            [] x = "groupLayout" -> FreeformGroupLayout
            [] x = "hasBackgroundColor" -> JFalse
            [] x = "backgroundColor" -> parseColor(backgroundColor)
            [] x = "horizontalRulerData" -> RulerData
            [] x = "verticalRulerData" -> RulerData
            [] x = "layers" ->
                 Arr(<<createBackgroundRect(frame, backgroundColor, callNo + 1)>>)
            [] x = "includeBackgroundColorInExport" -> JFalse
            [] x = "includeInCloudUpload" -> JTrue
            [] x = "isFlowHome" -> JFalse
            [] x = "resizesContent" -> JFalse
            [] OTHER -> layer.f[x]])

\* layers is a sequence of layer values
createPage(name, layers, callNo) ==
  Obj([_class |-> S("page"),
       do_objectID |-> UUID(callNo),
       name |-> name,
       hasClickThrough |-> JTrue,
       groupLayout |-> FreeformGroupLayout,
       horizontalRulerData |-> RulerData,
       verticalRulerData |-> RulerData,
       layers |-> Arr(layers),
       resizingConstraint |-> Num(63),
       resizingType |-> Num(0),
       rotation |-> Num(0),
       shouldBreakMaskChain |-> JFalse,
       exportOptions |-> ExportOptions,
       isFixedToViewport |-> JFalse,
       isFlippedHorizontal |-> JFalse,
       isFlippedVertical |-> JFalse,
       isLocked |-> JFalse,
       isVisible |-> JTrue,
       layerListExpandedType |-> Num(0),
       nameIsFixed |-> JFalse])

Container(class, callNo) ==
  Obj([_class |-> S(class), do_objectID |-> UUID(callNo), objects |-> Arr(<<>>)])

AssetCollection(callNo) ==
  Obj([_class |-> S("assetCollection"), do_objectID |-> UUID(callNo),
       colorAssets |-> Arr(<<>>), gradientAssets |-> Arr(<<>>), images |-> Arr(<<>>),
       colors |-> Arr(<<>>), gradients |-> Arr(<<>>)])

\* pages is a sequence of page values; uses identifiers callNo .. callNo + 5
generateSketchDocument(pages, callNo) ==
  Obj([_class |-> S("document"),
       do_objectID |-> UUID(callNo),
       appVersion |-> SKETCH_VERSION,
       build |-> Num(SKETCH_BUILD),
       currentPageIndex |-> Num(0),
       colorSpace |-> Num(1),
       assets |-> AssetCollection(callNo + 1),
       foreignLayerStyles |-> Arr(<<>>),
       foreignSymbols |-> Arr(<<>>),
       foreignTextStyles |-> Arr(<<>>),
       foreignSwatches |-> Arr(<<>>),
       layerStyles |-> Container("sharedStyleContainer", callNo + 2),
       layerSymbols |-> Container("symbolContainer", callNo + 3),
       layerTextStyles |-> Container("sharedTextStyleContainer", callNo + 4),
       sharedSwatches |-> Container("swatchContainer", callNo + 5),
       fontReferences |-> Arr(<<>>),
       documentState |-> Obj([_class |-> S("documentState")]),
       pages |-> Arr(pages)])

----------------------------------------------------------------------------
(* Structural validator (sketch-validator.cjs) *)

\* a violation pushed when cond holds
E(cond, msg) == IF cond THEN <<msg>> ELSE <<>>

RECURSIVE Flatten(_)
Flatten(seqs) == IF seqs = <<>> THEN <<>> ELSE Head(seqs) \o Flatten(Tail(seqs))

RECURSIVE Join(_)
\* the text of a string, for a message
Join(tokens) == IF tokens = <<>> THEN "" ELSE Head(tokens) \o Join(Tail(tokens))

\* `${v}` in a message
Text(v) ==
  CASE v.k = "str" -> Join(v.s)
    [] v.k = "undef" -> "undefined"
    [] v.k = "null" -> "null"
    [] v.k = "bool" -> IF v.b THEN "true" ELSE "false"
    [] v.k = "num" -> IF v.d = 1 THEN ToString(v.n) ELSE "NaN"
    [] OTHER -> "[object]"

Idx(path, i) == path \o "[" \o ToString(i - 1) \o "]"

\* what a validate* call does: returns its violations, or throws
Ok(errors) == [t |-> FALSE, e |-> errors]
Thrown == [t |-> TRUE, e |-> <<>>]
\* errors.push(...r) after the violations found so far
Push(errors, r) == IF r.t THEN Thrown ELSE Ok(errors \o r.e)
\* array.forEach(validate...): results[i] is what the i-th callback does
ForEach(results) ==
  IF \E i \in DOMAIN results : results[i].t THEN Thrown
  ELSE Ok(Flatten([i \in DOMAIN results |-> results[i].e]))

Digits == {"0", "1", "2", "3", "4", "5", "6", "7", "8", "9"}

RECURSIVE SkipDigits(_, _)
SkipDigits(cs, i) ==
  IF i <= Len(cs) /\ cs[i] \in Digits THEN SkipDigits(cs, i + 1) ELSE i

\* -?\d+(\.\d+)? at index i: the index after the match, 0 for no match
MatchNumber(cs, i) ==
  LET j == IF i <= Len(cs) /\ cs[i] = "-" THEN i + 1 ELSE i
      m == SkipDigits(cs, j)
  IN IF m = j THEN 0
     ELSE IF m <= Len(cs) /\ cs[m] = "." /\ SkipDigits(cs, m + 1) > m + 1
     THEN SkipDigits(cs, m + 1)
     ELSE m

\* /^\{-?\d+(\.\d+)?, -?\d+(\.\d+)?\}$/.test(str)
MatchesPointPattern(cs) ==
  /\ Len(cs) >= 1 /\ cs[1] = "{"
  /\ LET a == MatchNumber(cs, 2)
     IN /\ a # 0
        /\ a + 1 <= Len(cs) /\ cs[a] = "," /\ cs[a + 1] = " "
        /\ LET b == MatchNumber(cs, a + 2)
           IN b # 0 /\ b = Len(cs) /\ cs[b] = "}"

NotNumber(o, name) == TypeOf(Get(o, name)) # "number"
NotString(o, name) == TypeOf(Get(o, name)) # "string"
NotBoolean(o, name) == TypeOf(Get(o, name)) # "boolean"

ChannelError(color, path, prop) ==
  E(\/ NotNumber(color, prop)
    \/ NumLt(Get(color, prop), Num(0))
    \/ NumGt(Get(color, prop), Num(1)),
    path \o "." \o prop \o " must be a number between 0 and 1")

validateColor(color, path) ==
  IF ~IsObjectLike(color) THEN <<path \o " must be an object">>
  ELSE E(Get(color, "_class") # S("color"), path \o "._class must be \"color\"")
       \o ChannelError(color, path, "red")
       \o ChannelError(color, path, "green")
       \o ChannelError(color, path, "blue")
       \o ChannelError(color, path, "alpha")

validateRect(rect, path) ==
  IF ~IsObjectLike(rect) THEN <<path \o " must be an object">>
  ELSE E(Get(rect, "_class") # S("rect"), path \o "._class must be \"rect\"")
       \o E(NotNumber(rect, "x"), path \o ".x must be a number")
       \o E(NotNumber(rect, "y"), path \o ".y must be a number")
       \o E(NotNumber(rect, "width"), path \o ".width must be a number")
       \o E(NotNumber(rect, "height"), path \o ".height must be a number")

validateRulerData(data, path) ==
  IF ~IsObjectLike(data) THEN <<path \o " must be an object">>
  ELSE E(Get(data, "_class") # S("rulerData"), path \o "._class must be \"rulerData\"")
       \o E(NotNumber(data, "base"), path \o ".base must be a number")
       \o E(~IsArray(Get(data, "guides")), path \o ".guides must be an array")

validateExportOptions(options, path) ==
  IF ~IsObjectLike(options) THEN <<path \o " must be an object">>
  ELSE E(Get(options, "_class") # S("exportOptions"),
         path \o "._class must be \"exportOptions\"")
       \o E(~IsArray(Get(options, "exportFormats")),
            path \o ".exportFormats must be an array")
       \o E(~IsArray(Get(options, "includedLayerIds")),
            path \o ".includedLayerIds must be an array")
       \o E(NotNumber(options, "layerOptions"), path \o ".layerOptions must be a number")
       \o E(NotBoolean(options, "shouldTrim"), path \o ".shouldTrim must be a boolean")

PointStringError(point, path, prop) ==
  E(NotString(point, prop) \/ ~MatchesPointPattern(Get(point, prop).s),
    path \o "." \o prop \o " must be a point string like \"{0, 0}\"")

validateCurvePoint(point, path) ==
  IF ~IsObjectLike(point) THEN <<path \o " must be an object">>
  ELSE E(Get(point, "_class") # S("curvePoint"),
         path \o "._class must be \"curvePoint\"")
       \o E(NotNumber(point, "cornerRadius"), path \o ".cornerRadius must be a number")
       \o E(NotNumber(point, "curveMode"), path \o ".curveMode must be a number")
       \o E(NotBoolean(point, "hasCurveFrom"), path \o ".hasCurveFrom must be a boolean")
       \o E(NotBoolean(point, "hasCurveTo"), path \o ".hasCurveTo must be a boolean")
       \o PointStringError(point, path, "point")
       \o PointStringError(point, path, "curveFrom")
       \o PointStringError(point, path, "curveTo")

validateFill(fill, path) ==
  IF ~IsObjectLike(fill) THEN <<path \o " must be an object">>
  ELSE E(Get(fill, "_class") # S("fill"), path \o "._class must be \"fill\"")
       \o E(NotNumber(fill, "fillType"), path \o ".fillType must be a number")
       \o E(NotBoolean(fill, "isEnabled"), path \o ".isEnabled must be a boolean")
       \o (IF Truthy(Get(fill, "color"))
           THEN validateColor(Get(fill, "color"), path \o ".color") ELSE <<>>)

validateStyle(style, path) ==
  IF ~IsObjectLike(style) THEN <<path \o " must be an object">>
  ELSE LET fills == Get(style, "fills")
       IN E(Get(style, "_class") # S("style"), path \o "._class must be \"style\"")
          \o E(Truthy(Get(style, "do_objectID")) /\ ~IsValidUUID(Get(style, "do_objectID")),
               path \o ".do_objectID must be a valid UUID")
          \o (IF ~IsArray(fills) THEN <<path \o ".fills must be an array">>
              ELSE Flatten([i \in DOMAIN fills.a |->
                     validateFill(fills.a[i], Idx(path \o ".fills", i))]))
          \o E(~IsArray(Get(style, "borders")), path \o ".borders must be an array")
          \o E(~IsArray(Get(style, "shadows")), path \o ".shadows must be an array")
          \o E(~IsArray(Get(style, "innerShadows")),
               path \o ".innerShadows must be an array")

\* the checks of rect.points
validatePoints(points, path) ==
  IF ~IsArray(points) THEN <<path \o ".points must be an array">>
  ELSE IF Len(points.a) # 4 THEN <<path \o ".points must have exactly 4 points">>
  ELSE Flatten([i \in DOMAIN points.a |->
         validateCurvePoint(points.a[i], Idx(path \o ".points", i))])

validateRectangle(rect, path) ==
  IF ~IsObjectLike(rect) THEN <<path \o " must be an object">>
  ELSE E(Get(rect, "_class") # S("rectangle"), path \o "._class must be \"rectangle\"")
       \o E(~IsValidUUID(Get(rect, "do_objectID")),
            path \o ".do_objectID must be a valid UUID")
       \o E(NotString(rect, "name"), path \o ".name must be a string")
       \o validateRect(Get(rect, "frame"), path \o ".frame")
       \o E(NotNumber(rect, "resizingConstraint"),
            path \o ".resizingConstraint must be a number")
       \o E(NotNumber(rect, "booleanOperation"),
            path \o ".booleanOperation must be a number")
       \o validateExportOptions(Get(rect, "exportOptions"), path \o ".exportOptions")
       \o E(NotBoolean(rect, "isVisible"), path \o ".isVisible must be a boolean")
       \o E(NotBoolean(rect, "isLocked"), path \o ".isLocked must be a boolean")
       \o E(NotBoolean(rect, "edited"), path \o ".edited must be a boolean")
       \o E(NotBoolean(rect, "isClosed"), path \o ".isClosed must be a boolean")
       \o E(NotNumber(rect, "pointRadiusBehaviour"),
            path \o ".pointRadiusBehaviour must be a number")
       \o E(NotNumber(rect, "fixedRadius"), path \o ".fixedRadius must be a number")
       \o validatePoints(Get(rect, "points"), path)
       \o (IF Truthy(Get(rect, "style"))
           THEN validateStyle(Get(rect, "style"), path \o ".style") ELSE <<>>)

\* the callback of attributedString.attributes.forEach
validateStringAttribute(attr, p) ==
  IF Nullish(attr) THEN Thrown
  ELSE LET inner == Get(attr, "attributes")
           fontDesc == IF Nullish(inner) THEN Undef
                       ELSE Get(inner, "MSAttributedStringFontAttribute")
           fp == p \o ".MSAttributedStringFontAttribute"
       IN Ok(E(Get(attr, "_class") # S("stringAttribute"),
               p \o "._class must be \"stringAttribute\"")
             \o E(NotNumber(attr, "location"), p \o ".location must be a number")
             \o E(NotNumber(attr, "length"), p \o ".length must be a number")
             \o (IF ~Truthy(fontDesc) THEN <<>>
                 ELSE E(Get(fontDesc, "_class") # S("fontDescriptor"),
                        fp \o "._class must be \"fontDescriptor\"")
                      \o (IF ~IsObjectLike(Get(fontDesc, "attributes"))
                          THEN <<fp \o ".attributes is required (Figma compatibility)">>
                          ELSE E(NotString(Get(fontDesc, "attributes"), "name"),
                                 fp \o ".attributes.name must be a string")
                               \o E(NotNumber(Get(fontDesc, "attributes"), "size"),
                                    fp \o ".attributes.size must be a number"))))

\* the checks of text.attributedString
validateAttributedString(as, path) ==
  IF ~IsObjectLike(as) THEN Ok(<<path \o ".attributedString must be an object">>)
  ELSE LET attrs == Get(as, "attributes")
           head == E(Get(as, "_class") # S("attributedString"),
                     path \o ".attributedString._class must be \"attributedString\"")
                   \o E(NotString(as, "string"),
                        path \o ".attributedString.string must be a string")
       IN IF ~IsArray(attrs)
          THEN Ok(head \o <<path \o ".attributedString.attributes must be an array">>)
          ELSE Push(head, ForEach([i \in DOMAIN attrs.a |->
                 validateStringAttribute(attrs.a[i],
                   Idx(path \o ".attributedString.attributes", i))]))

validateText(text, path) ==
  IF ~IsObjectLike(text) THEN Ok(<<path \o " must be an object">>)
  ELSE LET head ==
             E(Get(text, "_class") # S("text"), path \o "._class must be \"text\"")
             \o E(~IsValidUUID(Get(text, "do_objectID")),
                  path \o ".do_objectID must be a valid UUID")
             \o E(NotString(text, "name"), path \o ".name must be a string")
             \o validateRect(Get(text, "frame"), path \o ".frame")
             \o E(NotNumber(text, "resizingConstraint"),
                  path \o ".resizingConstraint must be a number")
             \o E(NotNumber(text, "booleanOperation"),
                  path \o ".booleanOperation must be a number")
             \o validateExportOptions(Get(text, "exportOptions"), path \o ".exportOptions")
             \o E(NotBoolean(text, "isVisible"), path \o ".isVisible must be a boolean")
           as == Push(head, validateAttributedString(Get(text, "attributedString"), path))
       IN Push(as.e, IF as.t THEN Thrown
                     ELSE Ok(IF Truthy(Get(text, "style"))
                             THEN validateStyle(Get(text, "style"), path \o ".style")
                             ELSE <<>>))

\* the checks of groupLayout shared by artboards and pages
validateGroupLayout(node, path) ==
  IF ~IsObjectLike(Get(node, "groupLayout"))
  THEN <<path \o ".groupLayout is required for Figma compatibility">>
  ELSE E(Get(Get(node, "groupLayout"), "_class") # S("MSImmutableFreeformGroupLayout"),
         path \o ".groupLayout._class must be \"MSImmutableFreeformGroupLayout\"")

\* the callback of artboard.layers.forEach
validateArtboardLayer(layer, path) ==
  IF Nullish(layer) THEN Thrown
  ELSE IF Get(layer, "_class") = S("rectangle") THEN Ok(validateRectangle(layer, path))
  ELSE IF Get(layer, "_class") = S("text") THEN validateText(layer, path)
  ELSE Ok(<<>>)

validateArtboard(artboard, path) ==
  IF ~IsObjectLike(artboard) THEN Ok(<<path \o " must be an object">>)
  ELSE LET layers == Get(artboard, "layers")
           head ==
             E(Get(artboard, "_class") # S("artboard"),
               path \o "._class must be \"artboard\"")
             \o E(~IsValidUUID(Get(artboard, "do_objectID")),
                  path \o ".do_objectID must be a valid UUID")
             \o E(NotString(artboard, "name"), path \o ".name must be a string")
             \o validateGroupLayout(artboard, path)
             \o validateRect(Get(artboard, "frame"), path \o ".frame")
             \o E(NotNumber(artboard, "resizingConstraint"),
                  path \o ".resizingConstraint must be a number")
             \o E(NotNumber(artboard, "booleanOperation"),
                  path \o ".booleanOperation must be a number")
             \o validateExportOptions(Get(artboard, "exportOptions"),
                                      path \o ".exportOptions")
             \o E(NotBoolean(artboard, "isVisible"), path \o ".isVisible must be a boolean")
             \o E(NotBoolean(artboard, "hasBackgroundColor"),
                  path \o ".hasBackgroundColor must be a boolean")
             \o (IF Truthy(Get(artboard, "backgroundColor"))
                 THEN validateColor(Get(artboard, "backgroundColor"),
                                    path \o ".backgroundColor")
                 ELSE <<>>)
             \o validateRulerData(Get(artboard, "horizontalRulerData"),
                                  path \o ".horizontalRulerData")
             \o validateRulerData(Get(artboard, "verticalRulerData"),
                                  path \o ".verticalRulerData")
             \o E(NotBoolean(artboard, "hasClickThrough"),
                  path \o ".hasClickThrough must be a boolean")
       IN IF ~IsArray(layers) THEN Ok(head \o <<path \o ".layers must be an array">>)
          ELSE Push(head, ForEach([i \in DOMAIN layers.a |->
                 validateArtboardLayer(layers.a[i], Idx(path \o ".layers", i))]))

\* the callback of page.layers.forEach
validatePageLayer(layer, path) ==
  IF Nullish(layer) THEN Thrown
  ELSE IF Get(layer, "_class") = S("artboard") THEN validateArtboard(layer, path)
  ELSE Ok(<<>>)

validatePage(page, path) ==
  IF ~IsObjectLike(page) THEN Ok(<<path \o " must be an object">>)
  ELSE LET layers == Get(page, "layers")
           head ==
             E(Get(page, "_class") # S("page"), path \o "._class must be \"page\"")
             \o E(~IsValidUUID(Get(page, "do_objectID")),
                  path \o ".do_objectID must be a valid UUID")
             \o E(NotString(page, "name"), path \o ".name must be a string")
             \o validateGroupLayout(page, path)
             \o validateRulerData(Get(page, "horizontalRulerData"),
                                  path \o ".horizontalRulerData")
             \o validateRulerData(Get(page, "verticalRulerData"),
                                  path \o ".verticalRulerData")
             \o E(NotBoolean(page, "hasClickThrough"),
                  path \o ".hasClickThrough must be a boolean")
             \o validateExportOptions(Get(page, "exportOptions"), path \o ".exportOptions")
       IN IF ~IsArray(layers) THEN Ok(head \o <<path \o ".layers must be an array">>)
          ELSE Push(head, ForEach([i \in DOMAIN layers.a |->
                 validatePageLayer(layers.a[i], Idx(path \o ".layers", i))]))

\* the callback of doc.pages.forEach
validatePageRef(pageRef, p) ==
  IF Nullish(pageRef) THEN Thrown
  ELSE Ok(E(Get(pageRef, "_class") # S("MSJSONFileReference"),
            p \o "._class must be \"MSJSONFileReference\"")
          \o E(Get(pageRef, "_ref_class") # S("MSImmutablePage"),
               p \o "._ref_class must be \"MSImmutablePage\"")
          \o E(NotString(pageRef, "_ref"), p \o "._ref must be a string"))

\* `!doc[name] || doc[name]._class !== class`
ContainerError(doc, path, name, class) ==
  E(~Truthy(Get(doc, name)) \/ Get(Get(doc, name), "_class") # S(class),
    path \o "." \o name \o " must have _class \"" \o class \o "\"")

validateDocument(doc, path) ==
  IF ~IsObjectLike(doc) THEN Ok(<<path \o " must be an object">>)
  ELSE LET pages == Get(doc, "pages")
           head ==
             E(Get(doc, "_class") # S("document"), path \o "._class must be \"document\"")
             \o E(~IsValidUUID(Get(doc, "do_objectID")),
                  path \o ".do_objectID must be a valid UUID")
             \o E(NotString(doc, "appVersion"), path \o ".appVersion must be a string")
             \o E(NotNumber(doc, "build"), path \o ".build must be a number")
             \o E(NotNumber(doc, "currentPageIndex"),
                  path \o ".currentPageIndex must be a number")
             \o E(NotNumber(doc, "colorSpace"), path \o ".colorSpace must be a number")
           tail ==
             ContainerError(doc, path, "assets", "assetCollection")
             \o ContainerError(doc, path, "layerStyles", "sharedStyleContainer")
             \o ContainerError(doc, path, "layerSymbols", "symbolContainer")
             \o ContainerError(doc, path, "layerTextStyles", "sharedTextStyleContainer")
           refs == IF ~IsArray(pages) THEN Ok(<<path \o ".pages must be an array">>)
                   ELSE ForEach([i \in DOMAIN pages.a |->
                          validatePageRef(pages.a[i], Idx(path \o ".pages", i))])
       IN Push(head \o (IF refs.t THEN <<>> ELSE refs.e),
               IF refs.t THEN Thrown ELSE Ok(tail))

----------------------------------------------------------------------------
(* validateMeta, validateUser and the cross-file walk *)

RECURSIVE SetToSeq(_)
SetToSeq(set) ==
  IF set = {} THEN <<>>
  ELSE LET x == CHOOSE y \in set : TRUE IN <<x>> \o SetToSeq(set \ {x})

\* Object.entries(v) of an object or an array: <<key string, value>> pairs
EntriesOf(v) ==
  CASE v.k = "map" -> v.m
    [] v.k = "obj" -> LET names == SetToSeq(DOMAIN v.f)
                      IN [i \in DOMAIN names |-> <<S(names[i]), v.f[names[i]]>>]
    [] v.k = "arr" -> [i \in DOMAIN v.a |-> <<S(ToString(i - 1)), v.a[i]>>]
    [] OTHER -> <<>>

\* the callback of Object.entries(pageData.artboards).forEach
validateMetaArtboard(entry, p) ==
  IF Nullish(entry[2]) THEN Thrown
  ELSE Ok(E(~IsValidUUID(entry[1]),
            p \o ".artboards has invalid UUID key: " \o Text(entry[1]))
          \o E(NotString(entry[2], "name"),
               p \o ".artboards[" \o Text(entry[1]) \o "].name must be a string"))

\* the callback of Object.entries(meta.pagesAndArtboards).forEach
validateMetaPage(entry, path) ==
  IF Nullish(entry[2]) THEN Thrown
  ELSE LET p == path \o ".pagesAndArtboards[" \o Text(entry[1]) \o "]"
           artboards == Get(entry[2], "artboards")
           head == E(~IsValidUUID(entry[1]),
                     path \o ".pagesAndArtboards has invalid UUID key: " \o Text(entry[1]))
                   \o E(NotString(entry[2], "name"), p \o ".name must be a string")
       IN IF ~IsObjectLike(artboards)
          THEN Ok(head \o <<p \o ".artboards must be an object">>)
          ELSE LET es == EntriesOf(artboards)
               IN Push(head, ForEach([i \in DOMAIN es |-> validateMetaArtboard(es[i], p)]))

validateMeta(meta, path) ==
  IF ~IsObjectLike(meta) THEN Ok(<<path \o " must be an object">>)
  ELSE LET pa == Get(meta, "pagesAndArtboards")
           head ==
             E(NotString(meta, "commit"), path \o ".commit must be a string")
             \o E(NotNumber(meta, "version"), path \o ".version must be a number (121-146)")
             \o E(Get(meta, "compatibilityVersion") # Num(99),
                  path \o ".compatibilityVersion must be 99")
             \o E(NotString(meta, "app"), path \o ".app must be a string")
             \o E(NotNumber(meta, "build"), path \o ".build must be a number")
             \o E(NotString(meta, "appVersion"), path \o ".appVersion must be a string")
             \o E(NotNumber(meta, "autosaved"),
                  path \o ".autosaved must be a number (0 or 1)")
       IN IF ~IsObjectLike(pa)
          THEN Ok(head \o <<path \o ".pagesAndArtboards must be an object">>)
          ELSE LET es == EntriesOf(pa)
               IN Push(head, ForEach([i \in DOMAIN es |-> validateMetaPage(es[i], path)]))

\* the callback of pageIds.forEach
validateUserPage(user, pageId, path) ==
  LET data == GetKey(user, pageId)
      p == path \o "[" \o Text(pageId) \o "]"
  IN IF ~Truthy(data) THEN <<path \o " missing data for page " \o Text(pageId)>>
     ELSE E(NotString(data, "scrollOrigin"), p \o ".scrollOrigin must be a string")
          \o E(NotNumber(data, "zoomValue"), p \o ".zoomValue must be a number")

\* pageIds is a sequence of string values
validateUser(user, pageIds, path) ==
  IF ~IsObjectLike(user) THEN <<path \o " must be an object">>
  ELSE LET document == Get(user, "document")
       IN (IF ~IsObjectLike(document) THEN <<path \o ".document must be an object">>
           ELSE E(NotNumber(document, "pageListHeight"),
                  path \o ".document.pageListHeight must be a number")
                \o E(NotNumber(document, "pageListCollapsed"),
                     path \o ".document.pageListCollapsed must be a number"))
          \o Flatten([i \in DOMAIN pageIds |-> validateUserPage(user, pageIds[i], path)])

----------------------------------------------------------------------------
(* The file system.  A path is the sequence of its components; fs maps  *)
(* each existing path to [type |-> "dir"] or to a file with its data:   *)
(* [fmt |-> "json", v |-> value], [fmt |-> "text"] (not JSON) or         *)
(* [fmt |-> "zip", entries |-> the archived files].                      *)

Dir == [type |-> "dir"]
JsonFile(v) == [type |-> "file", data |-> [fmt |-> "json", v |-> JsonRoundTrip(v)]]
TextFile == [type |-> "file", data |-> [fmt |-> "text"]]

\* fs.existsSync(path)
existsSync(files, path) == path \in DOMAIN files

IsPrefix(p, q) == Len(p) <= Len(q) /\ SubSeq(q, 1, Len(p)) = p

\* a mkdirSync that creates nothing
mkdirSyncNothing(files, path) == files

\* fs.mkdirSync(path, {recursive: true}): the path and its missing ancestors
mkdirSync(files, path) ==
  LET missing == {SubSeq(path, 1, n) : n \in 1..Len(path)} \ DOMAIN files
  IN [p \in DOMAIN files \cup missing |-> IF p \in missing THEN Dir ELSE files[p]]

\* fs.rmSync(path, {recursive: true})
rmSync(files, path) == [p \in {q \in DOMAIN files : ~IsPrefix(path, q)} |-> files[p]]

\* writeJSON(dir, filename, data)
writeJSON(files, dir, filename, data) ==
  [p \in DOMAIN files \cup {Append(dir, filename)} |->
     IF p = Append(dir, filename) THEN JsonFile(data) ELSE files[p]]

\* JSON.parse(fs.readFileSync(path, 'utf8')): the value, or a throw
readJSON(files, path) ==
  IF path \in DOMAIN files /\ files[path].type = "file" /\ files[path].data.fmt = "json"
  THEN [t |-> FALSE, v |-> files[path].data.v]
  ELSE [t |-> TRUE, v |-> Undef]

\* a step of the try block: acc is [t |-> threw, e |-> the errors array]
TryStep(acc, r) ==
  IF acc.t THEN acc
  ELSE IF r.t THEN [t |-> TRUE, e |-> acc.e]
  ELSE Ok(acc.e \o r.e)

\* pageRef._ref?.replace('pages/', ''): a value, or a throw when _ref is
\* neither a string nor null/undefined
PageIdOf(pageRef) ==
  IF Nullish(pageRef) THEN [t |-> TRUE, v |-> Undef]
  ELSE LET ref == Get(pageRef, "_ref")
       IN IF Nullish(ref) THEN [t |-> FALSE, v |-> Undef]
          ELSE IF ref.k = "str" THEN [t |-> FALSE, v |-> ReplaceFirst(ref, "pages/")]
          ELSE [t |-> TRUE, v |-> Undef]

\* one iteration of `for (const pageRef of doc.pages)`
validatePageFile(files, pagesDir, pageRef) ==
  LET id == PageIdOf(pageRef)
      pagePath == Append(pagesDir, Text(id.v) \o ".json")
  IN IF id.t THEN Thrown
     ELSE IF ~Truthy(id.v) THEN Ok(<<>>)
     ELSE IF ~existsSync(files, pagePath)
     THEN Ok(<<"Missing page file: pages/" \o Text(id.v) \o ".json">>)
     ELSE LET page == readJSON(files, pagePath)
          IN IF page.t THEN Thrown ELSE validatePage(page.v, "page")

RECURSIVE validatePageFiles(_, _, _, _, _)
validatePageFiles(files, pagesDir, refs, i, acc) ==
  IF i > Len(refs) \/ acc.t THEN acc
  ELSE validatePageFiles(files, pagesDir, refs, i + 1,
         TryStep(acc, validatePageFile(files, pagesDir, refs[i])))

\* doc.pages?.map(p => p._ref?.replace('pages/', '')).filter(Boolean) || []
PageIdsOf(doc) ==
  LET pages == Get(doc, "pages")
  IN IF Nullish(pages) THEN [t |-> FALSE, v |-> <<>>]
     ELSE IF ~IsArray(pages) THEN [t |-> TRUE, v |-> <<>>]
     ELSE IF \E i \in DOMAIN pages.a : PageIdOf(pages.a[i]).t THEN [t |-> TRUE, v |-> <<>>]
     ELSE LET ids == [i \in DOMAIN pages.a |-> PageIdOf(pages.a[i]).v]
          IN [t |-> FALSE, v |-> SelectSeq(ids, Truthy)]

\* the files whose absence ends the walk at once
MissingFiles(files, sketchDir) ==
  E(~existsSync(files, Append(sketchDir, "document.json")),
    "Missing required file: document.json")
  \o E(~existsSync(files, Append(sketchDir, "meta.json")),
       "Missing required file: meta.json")
  \o E(~existsSync(files, Append(sketchDir, "user.json")),
       "Missing required file: user.json")
  \o E(~existsSync(files, Append(sketchDir, "pages")), "Missing pages directory")

\* lines 629-630: document.json is parsed and validated; doc is what
\* readJSON returned
WalkDocument(doc) ==
  IF doc.t THEN [t |-> TRUE, e |-> <<>>]
  ELSE TryStep(Ok(<<>>), validateDocument(doc.v, "document"))

\* lines 632-646: the page files; acc is the try block so far
WalkPages(files, pagesDir, doc, acc) ==
  IF acc.t THEN acc
  ELSE IF Nullish(doc.v) THEN [t |-> TRUE, e |-> acc.e]
  ELSE IF Truthy(Get(doc.v, "pages")) /\ IsArray(Get(doc.v, "pages"))
  THEN validatePageFiles(files, pagesDir, Get(doc.v, "pages").a, 1, acc)
  ELSE acc

\* lines 648-650: meta.json
WalkMeta(meta, acc) ==
  IF acc.t THEN acc
  ELSE IF meta.t THEN [t |-> TRUE, e |-> acc.e]
  ELSE TryStep(acc, validateMeta(meta.v, "meta"))

\* lines 652-655: user.json, against the page identifiers of document.json
WalkUser(user, pageIds, acc) ==
  IF acc.t THEN acc
  ELSE IF user.t \/ pageIds.t THEN [t |-> TRUE, e |-> acc.e]
  ELSE TryStep(acc, Ok(validateUser(user.v, pageIds.v, "user")))

\* the body of the try block
validateFiles(files, sketchDir) ==
  WalkUser(readJSON(files, Append(sketchDir, "user.json")),
           PageIdsOf(readJSON(files, Append(sketchDir, "document.json")).v),
    WalkMeta(readJSON(files, Append(sketchDir, "meta.json")),
      WalkPages(files, Append(sketchDir, "pages"),
                readJSON(files, Append(sketchDir, "document.json")),
        WalkDocument(readJSON(files, Append(sketchDir, "document.json"))))))

\* e.message of what the try block can throw, a SyntaxError of JSON.parse
\* or a TypeError of a property read: it names a token or a property
ErrorMessage == "Unexpected token"

\* the catch block (lines 657-659) and the returned object; walk is what
\* the try block did
WalkResult(walk) ==
  [valid |-> ~walk.t /\ Len(walk.e) = 0,
   errors |-> IF walk.t THEN walk.e \o <<"Error parsing JSON: " \o ErrorMessage>>
              ELSE walk.e]

\* lines 621-625: the early return
DirectoryResult(missing, walk) ==
  IF Len(missing) > 0 THEN [valid |-> FALSE, errors |-> missing]
  ELSE WalkResult(walk)

\* returns [valid |-> ..., errors |-> ...]
validateSketchDirectory(files, sketchDir) ==
  DirectoryResult(MissingFiles(files, sketchDir), validateFiles(files, sketchDir))

----------------------------------------------------------------------------
(* The assembler (generateSketchJSON, generateModule).  A module's layers *)
(* are first listed as constructor calls, in the order the code makes     *)
(* them, and then built: each call draws two identifiers.                 *)

F(x, y, width, height) == [x |-> x, y |-> y, width |-> width, height |-> height]
\* createRectangle(frame, style, name)
R(frame, style, name) == [kind |-> "rect", frame |-> frame, style |-> style, name |-> name]
\* createText(text, frame, style)
T(text, frame, style) == [kind |-> "text", frame |-> frame, style |-> style, text |-> text]
\* a + n
P(a, n) == NumAdd(a, Num(n))
\* { fontSize, fontFamily, color, alignment }
Font(size, family, color, alignment) ==
  Obj([fontSize |-> Num(size), fontFamily |-> S(family), color |-> color,
       alignment |-> S(alignment)])
\* { fontSize, fontFamily, color }
FontNoAlign(size, family, color) ==
  Obj([fontSize |-> Num(size), fontFamily |-> S(family), color |-> color])
Fills(color) == Obj([fills |-> Arr(<<color>>)])
FillsRadius(color, radius) ==
  Obj([fills |-> Arr(<<color>>), cornerRadius |-> Num(radius)])
White == Str(<<"#", "F", "F", "F", "F", "F", "F">>)

\* the calls made so far, or a throw
Calls(calls) == [t |-> FALSE, c |-> calls]
CallsThrown == [t |-> TRUE, c |-> <<>>]
\* array.forEach(item => calls): each[i] is what the i-th callback does
EachCalls(each) ==
  IF \E i \in DOMAIN each : each[i].t THEN CallsThrown
  ELSE Calls(Flatten([i \in DOMAIN each |-> each[i].c]))
Then(a, b) == IF a.t \/ b.t THEN CallsThrown ELSE Calls(a.c \o b.c)
\* `if (value) layers.push(createText(value, ...))`
OptText(value, frame, style) ==
  IF Truthy(value) THEN Calls(<<T(value, frame, style)>>) ELSE Calls(<<>>)
\* `${value}` and String(value)
ToStr(v) == IF v.k = "str" THEN v ELSE S(Text(v))

ModuleHeader(m, x, y, width, cp) ==
  Then(Calls(<<R(F(x, y, width, OrElse(Get(m, "height"), Num(56))),
                 Fills(Get(cp, "surface")), S("Header"))>>),
       OptText(Get(m, "title"), F(P(x, 16), P(y, 16), P(width, -32), Num(24)),
               Font(18, "Roboto-Bold", Get(cp, "textPrimary"), "center")))

ModuleHero(m, x, y, width, cp) ==
  LET mid == NumAdd(x, NumDiv(width, Num(2)))
  IN Then(Calls(<<R(F(x, y, width, OrElse(Get(m, "height"), Num(280))),
                    Fills(Get(cp, "primary")), S("Hero Background"))>>),
     Then(OptText(Get(m, "title"), F(P(x, 24), P(y, 40), P(width, -48), Num(36)),
                  Font(28, "Roboto-Bold", White, "center")),
     Then(OptText(Get(m, "subtitle"), F(P(x, 24), P(y, 84), P(width, -48), Num(20)),
                  Font(15, "Roboto-Regular", White, "center")),
          IF Truthy(Get(m, "cta"))
          THEN Calls(<<R(F(P(mid, -70), P(y, 140), Num(140), Num(44)),
                         FillsRadius(White, 22), S("CTA Button")),
                       T(Get(m, "cta"), F(P(mid, -70), P(y, 152), Num(140), Num(20)),
                         Font(16, "Roboto-Medium", Get(cp, "primary"), "center"))>>)
          ELSE Calls(<<>>))))

\* the bullet U+2022 is written "*"
ModuleFeatures(m, x, y, width, cp) ==
  LET items == Get(m, "items")
  IN Then(Calls(<<R(F(x, y, width, OrElse(Get(m, "height"), Num(200))),
                    Fills(Get(cp, "surface")), S("Features"))>>),
     Then(OptText(Get(m, "sectionTitle"),
                  F(P(x, 16), P(y, 20), P(width, -32), Num(24)),
                  Font(20, "Roboto-Medium", Get(cp, "textPrimary"), "left")),
          IF Truthy(items) /\ IsArray(items)
          THEN Calls([i \in DOMAIN items.a |->
                 T(Concat(Str(<<"*", " ">>), ToStr(items.a[i])),
                   F(P(x, 16), P(y, 60 + (i - 1) * 48), P(width, -32), Num(20)),
                   Font(16, "Roboto-Regular", Get(cp, "textPrimary"), "left"))])
          ELSE Calls(<<>>)))

\* the callback of module.products.forEach; index is 0-based
ProductCard(product, index, x, y, cardWidth, cp) ==
  IF Nullish(product) THEN CallsThrown
  ELSE LET col == index % 2
           row == index \div 2
           cardX == NumAdd(P(x, 16), NumMul(Num(col), P(cardWidth, 16)))
           cardY == NumAdd(P(y, 56), NumMul(Num(row), P(cardWidth, 80)))
       IN Calls(<<R(F(cardX, cardY, cardWidth, P(cardWidth, 60)),
                    FillsRadius(Get(cp, "surface"), 12),
                    Concat(S("Product "), S(ToString(index + 1)))),
                  T(OrElse(Get(product, "name"), S("Product")),
                    F(P(cardX, 12), P(NumAdd(cardY, cardWidth), 8),
                      P(cardWidth, -24), Num(18)),
                    FontNoAlign(14, "Roboto-Medium", Get(cp, "textPrimary"))),
                  T(OrElse(Get(product, "price"), S("$99")),
                    F(P(cardX, 12), P(NumAdd(cardY, cardWidth), 28),
                      P(cardWidth, -24), Num(16)),
                    FontNoAlign(14, "Roboto-Regular", Get(cp, "primary")))>>)

ModuleProductGrid(m, x, y, width, cp) ==
  LET products == Get(m, "products")
      cardWidth == NumDiv(P(width, -48), Num(2))
  IN Then(Calls(<<R(F(x, y, width, OrElse(Get(m, "height"), Num(300))),
                    Fills(Get(cp, "background")), S("Product Grid"))>>),
     Then(OptText(Get(m, "sectionTitle"),
                  F(P(x, 16), P(y, 16), P(width, -32), Num(24)),
                  FontNoAlign(20, "Roboto-Medium", Get(cp, "textPrimary"))),
          IF ~Truthy(products) THEN Calls(<<>>)
          ELSE IF ~IsArray(products) THEN CallsThrown
          ELSE EachCalls([i \in DOMAIN products.a |->
                 ProductCard(products.a[i], i - 1, x, y, cardWidth, cp)])))

ModuleBottomNav(m, x, y, width, cp) ==
  LET items == Get(m, "items")
      itemWidth == IF IsArray(items) /\ Len(items.a) > 0
                   THEN NumDiv(width, Num(Len(items.a))) ELSE NaN
  IN Then(Calls(<<R(F(x, y, width, OrElse(Get(m, "height"), Num(80))),
                    Fills(Get(cp, "surface")), S("Bottom Navigation"))>>),
          IF ~Truthy(items) THEN Calls(<<>>)
          ELSE IF ~IsArray(items) THEN CallsThrown
          ELSE Calls([i \in DOMAIN items.a |->
                 T(items.a[i],
                   F(NumAdd(x, NumMul(Num(i - 1), itemWidth)), P(y, 28),
                     itemWidth, Num(24)),
                   Font(12, "Roboto-Regular",
                        IF i = 1 THEN Get(cp, "primary") ELSE Get(cp, "textSecondary"),
                        "center"))]))

ModuleOrderHeader(m, x, y, width, cp) ==
  Then(Calls(<<R(F(x, y, width, OrElse(Get(m, "height"), Num(120))),
                 Fills(Get(cp, "surface")), S("Order Header"))>>),
  Then(OptText(Get(m, "title"), F(P(x, 24), P(y, 20), Num(400), Num(28)),
               Font(22, "Roboto-Bold", Get(cp, "textPrimary"), "left")),
  Then(OptText(Get(m, "subtitle"), F(P(x, 24), P(y, 52), Num(400), Num(20)),
               Font(14, "Roboto-Regular", Get(cp, "textSecondary"), "left")),
  Then(OptText(Get(m, "icon"), F(P(x, 24), P(y, 80), Num(100), Num(18)),
               Font(13, "Roboto-Medium", Get(cp, "textSecondary"), "left")),
       IF Truthy(Get(m, "status"))
       THEN Calls(<<R(F(P(NumAdd(x, width), -120), P(y, 20), Num(80), Num(28)),
                      FillsRadius(OrElse(Get(m, "statusColor"), Get(cp, "primary")), 4),
                      S("Status Tag")),
                    T(Get(m, "status"),
                      F(P(NumAdd(x, width), -120), P(y, 26), Num(80), Num(16)),
                      Font(12, "Roboto-Medium", White, "center"))>>)
       ELSE Calls(<<>>)))))

\* the callback of module.fields.forEach; index is 0-based
PanelField(field, index, x, y, fieldWidth, cp) ==
  IF Nullish(field) THEN CallsThrown
  ELSE LET col == index % 2
           row == index \div 2
           fieldX == NumAdd(P(x, 16), NumMul(Num(col), P(fieldWidth, 16)))
           fieldY == P(y, 52 + row * (36 + 16))
       IN Calls(<<T(Get(field, "label"), F(fieldX, fieldY, fieldWidth, Num(16)),
                    Font(13, "Roboto-Medium", Get(cp, "textSecondary"), "left")),
                  R(F(fieldX, P(fieldY, 18), fieldWidth, Num(32)),
                    FillsRadius(Get(cp, "background"), 4), Get(field, "label")),
                  T(OrElse(Get(field, "value"), EmptyStr),
                    F(P(fieldX, 8), P(fieldY, 24), P(fieldWidth, -16), Num(18)),
                    Font(13, "Roboto-Regular",
                         IF Truthy(Get(field, "value")) THEN Get(cp, "textPrimary")
                         ELSE Get(cp, "textSecondary"),
                         "left"))>>)

ModuleCollapsePanel(m, x, y, width, cp) ==
  LET fields == Get(m, "fields")
      fieldWidth == NumDiv(P(width, -48), Num(2))
  IN Then(Calls(<<R(F(x, y, width, OrElse(Get(m, "height"), Num(300))),
                    FillsRadius(Get(cp, "surface"), 8), S("Collapsible Panel"))>>),
     Then(OptText(Get(m, "title"), F(P(x, 16), P(y, 16), P(width, -32), Num(24)),
                  Font(16, "Roboto-Bold", Get(cp, "textPrimary"), "left")),
          IF Truthy(fields) /\ IsArray(fields)
          THEN EachCalls([i \in DOMAIN fields.a |->
                 PanelField(fields.a[i], i - 1, x, y, fieldWidth, cp)])
          ELSE Calls(<<>>)))

----------------------------------------------------------------------------
(* generateModule, continued *)

RECURSIVE SumTo(_, _)
\* widths[1] + ... + widths[n], as the code's `+=` accumulates it
SumTo(widths, n) == IF n = 0 THEN Num(0) ELSE NumAdd(SumTo(widths, n - 1), widths[n])

\* the callback of module.columns.forEach
ColumnHeader(col, colX, y, cp) ==
  IF Nullish(col) THEN CallsThrown
  ELSE Calls(<<T(Get(col, "name"), F(colX, P(y, 62), Get(col, "width"), Num(20)),
                 Font(13, "Roboto-Medium", Get(cp, "textSecondary"), "left"))>>)

\* row after `if (module.hasActions) row.pop()`
RowCells(m, row) ==
  IF Truthy(Get(m, "hasActions")) /\ Len(row.a) > 0
  THEN SubSeq(row.a, 1, Len(row.a) - 1) ELSE row.a

\* module.columns[colIndex]?.width || 80; colIndex is 0-based
CellWidth(m, colIndex) ==
  LET columns == Get(m, "columns")
      col == IF IsArray(columns) /\ colIndex + 1 \in DOMAIN columns.a
             THEN columns.a[colIndex + 1] ELSE Undef
  IN OrElse(IF Nullish(col) THEN Undef ELSE Get(col, "width"), Num(80))

\* the callback of module.rows.forEach; rowIndex is 0-based
TableRow(m, row, rowIndex, x, y, width, cp) ==
  IF ~IsArray(row) THEN CallsThrown
  ELSE LET rowY == P(y, 92 + rowIndex * 44)
           rowBg == IF rowIndex % 2 = 0 THEN Get(cp, "surface") ELSE Get(cp, "background")
           cellX0 == IF Truthy(Get(m, "hasCheckbox")) THEN P(x, 50) ELSE P(x, 20)
           cells == RowCells(m, row)
           widths == [i \in DOMAIN cells |-> CellWidth(m, i - 1)]
       IN IF Len(cells) > 0 /\ Nullish(Get(m, "columns")) THEN CallsThrown
          ELSE Calls(
            <<R(F(P(x, 16), rowY, P(width, -32), Num(44)), Fills(rowBg),
                Concat(S("Row "), S(ToString(rowIndex + 1))))>>
            \o (IF Truthy(Get(m, "hasCheckbox"))
                THEN <<R(F(P(x, 20), P(rowY, 14), Num(16), Num(16)),
                         FillsRadius(Get(cp, "border"), 2), S("Checkbox"))>>
                ELSE <<>>)
            \o [i \in DOMAIN cells |->
                  T(ToStr(cells[i]),
                    F(NumAdd(cellX0, SumTo(widths, i - 1)), P(rowY, 12),
                      widths[i], Num(20)),
                    Font(13, "Roboto-Regular", Get(cp, "textPrimary"), "left"))])

ModuleDataTable(m, x, y, width, cp) ==
  LET columns == Get(m, "columns")
      rows == Get(m, "rows")
      colWidths == [i \in DOMAIN columns.a |->
                      IF Nullish(columns.a[i]) THEN Undef
                      ELSE Get(columns.a[i], "width")]
  IN Then(Calls(<<R(F(x, y, width, OrElse(Get(m, "height"), Num(300))),
                    FillsRadius(Get(cp, "surface"), 8), S("Data Table"))>>),
     Then(OptText(Get(m, "title"), F(P(x, 16), P(y, 16), P(width, -32), Num(24)),
                  Font(16, "Roboto-Bold", Get(cp, "textPrimary"), "left")),
     Then(Calls(<<R(F(P(NumAdd(x, width), -100), P(y, 12), Num(80), Num(32)),
                    FillsRadius(Get(cp, "primary"), 4), S("Add Button")),
                  T(Str(<<"^", "~">>),
                    F(P(NumAdd(x, width), -100), P(y, 18), Num(80), Num(20)),
                    Font(13, "Roboto-Medium", White, "center")),
                  R(F(P(x, 16), P(y, 52), P(width, -32), Num(40)),
                    Fills(Get(cp, "background")), S("Table Header"))>>),
     Then(IF Truthy(columns) /\ IsArray(columns)
          THEN EachCalls([i \in DOMAIN columns.a |->
                 ColumnHeader(columns.a[i],
                              NumAdd(P(x, 20), SumTo(colWidths, i - 1)), y, cp)])
          ELSE Calls(<<>>),
          IF Truthy(rows) /\ IsArray(rows)
          THEN EachCalls([i \in DOMAIN rows.a |->
                 TableRow(m, rows.a[i], i - 1, x, y, width, cp)])
          ELSE Calls(<<>>)))))

\* the callback of module.buttons.forEach; index is 0-based
ActionButton(btn, index, startX, y, cp) ==
  IF Nullish(btn) THEN CallsThrown
  ELSE LET btnX == P(startX, index * (100 + 12))
           primary == Truthy(Get(btn, "primary"))
       IN Calls(<<R(F(btnX, P(y, 12), Num(100), Num(40)),
                    Obj([fills |-> Arr(<<IF primary THEN Get(cp, "primary")
                                         ELSE Get(cp, "background")>>),
                         cornerRadius |-> Num(6),
                         borderColor |-> IF primary THEN Get(cp, "primary")
                                         ELSE Get(cp, "border")]),
                    Get(btn, "text")),
                  T(Get(btn, "text"), F(btnX, P(y, 20), Num(100), Num(24)),
                    Font(14, "Roboto-Medium",
                         IF primary THEN White ELSE Get(cp, "textPrimary"),
                         "center"))>>)

ModuleActionButtons(m, x, y, width, cp) ==
  LET buttons == Get(m, "buttons")
      startX == P(NumAdd(x, width), -(Len(buttons.a) * 100) - 16)
  IN Then(Calls(<<R(F(x, y, width, OrElse(Get(m, "height"), Num(64))),
                    Fills(Get(cp, "surface")), S("Action Buttons"))>>),
          IF Truthy(buttons) /\ IsArray(buttons)
          THEN EachCalls([i \in DOMAIN buttons.a |->
                 ActionButton(buttons.a[i], i - 1, startX, y, cp)])
          ELSE Calls(<<>>))

ModuleLoginForm(m, x, y, width, cp) ==
  LET mid == NumAdd(x, NumDiv(width, Num(2)))
      label(text, dy) ==
        T(S(text), F(P(mid, -170), P(y, dy), Num(340), Num(18)),
          Font(14, "Roboto-Medium", Get(cp, "textSecondary"), "left"))
      input(name, dy) ==
        R(F(P(mid, -170), P(y, dy), Num(340), Num(44)),
          FillsRadius(Get(cp, "background"), 8), S(name))
      placeholder(text, dy) ==
        T(S(text), F(P(mid, -155), P(y, dy), Num(310), Num(18)),
          Font(14, "Roboto-Regular", Get(cp, "textSecondary"), "left"))
  IN Then(Calls(<<R(F(P(mid, -200), P(y, 60), Num(400), Num(320)),
                    FillsRadius(Get(cp, "surface"), 12), S("Login Form"))>>),
     Then(OptText(Get(m, "title"), F(P(mid, -200), P(y, 80), Num(400), Num(32)),
                  Font(24, "Roboto-Bold", Get(cp, "textPrimary"), "center")),
     Then(Calls(<<label("Email", 140), input("Email Input", 165),
                  placeholder("Enter your email", 179),
                  label("Password", 225), input("Password Input", 250),
                  placeholder("Enter your password", 264)>>),
          IF Truthy(Get(m, "buttons"))
          THEN Calls(<<R(F(P(mid, -170), P(y, 310), Num(160), Num(44)),
                         FillsRadius(Get(cp, "primary"), 8), S("Login Button")),
                       T(S("Sign In"), F(P(mid, -170), P(y, 322), Num(160), Num(20)),
                         Font(16, "Roboto-Medium", White, "center")),
                       R(F(P(mid, 10), P(y, 310), Num(160), Num(44)),
                         Obj([fills |-> Arr(<<Get(cp, "background")>>),
                              cornerRadius |-> Num(8),
                              borderColor |-> Get(cp, "textSecondary")]),
                         S("Reset Button")),
                       T(S("Reset"), F(P(mid, 10), P(y, 322), Num(160), Num(20)),
                         Font(16, "Roboto-Medium", Get(cp, "textSecondary"), "center"))>>)
          ELSE Calls(<<>>))))

\* The Chinese literals are written with the stand-in characters: each
\* label is as long as in the source and made of ideographs.
ModuleCustomLoginForm(m, x, y, width, cp) ==
  LET mid == NumAdd(x, NumDiv(width, Num(2)))
      label(text, dy) ==
        T(text, F(P(mid, -140), P(y, dy), Num(280), Num(18)),
          Font(14, "Roboto-Medium", Get(cp, "textSecondary"), "left"))
      input(name, dy, w) ==
        R(F(P(mid, -140), P(y, dy), Num(w), Num(44)),
          FillsRadius(Get(cp, "background"), 8), S(name))
      placeholder(text, dy, w) ==
        T(text, F(P(mid, -125), P(y, dy), Num(w), Num(18)),
          Font(14, "Roboto-Regular", Get(cp, "textSecondary"), "left"))
      btnY == P(y, 365)
  IN Then(Calls(<<R(F(P(mid, -160), P(y, 40), Num(320), Num(380)),
                    FillsRadius(Get(cp, "surface"), 12), S("Login Form"))>>),
     Then(OptText(Get(m, "title"), F(P(mid, -160), P(y, 60), Num(320), Num(32)),
                  Font(24, "Roboto-Bold", Get(cp, "textPrimary"), "center")),
          Calls(<<label(Str(<<"@", "%", "&">>), 110),
                  input("Username Input", 135, 280),
                  placeholder(OrElse(Get(m, "usernamePlaceholder"),
                                     Str(<<"@", "%", "&", "$", "^", "~">>)), 149, 250),
                  label(Str(<<"@", "%">>), 195),
                  input("Password Input", 220, 280),
                  placeholder(OrElse(Get(m, "passwordPlaceholder"),
                                     Str(<<"@", "%", "&", "$", "^">>)), 234, 250),
                  label(Str(<<"&", "$", "^">>), 280),
                  input("Verify Code Input", 305, 180),
                  placeholder(OrElse(Get(m, "verifyCodePlaceholder"),
                                     Str(<<"@", "%", "&", "$", "^", "~">>)), 319, 150),
                  R(F(P(mid, 50), P(y, 305), Num(90), Num(44)),
                    FillsRadius(Get(cp, "background"), 8), S("Verify Code Image")),
                  T(Str(<<"1", "2", "3", "4">>),
                    F(P(mid, 65), P(y, 319), Num(60), Num(18)),
                    Font(16, "Roboto-Bold", Get(cp, "textPrimary"), "center")),
                  R(F(P(mid, -140), btnY, Num(130), Num(44)),
                    FillsRadius(Get(cp, "primary"), 8), S("Login Button")),
                  T(OrElse(Get(m, "loginText"), Str(<<"@", "%">>)),
                    F(P(mid, -140), P(btnY, 12), Num(130), Num(20)),
                    Font(16, "Roboto-Medium", White, "center")),
                  R(F(P(mid, 10), btnY, Num(130), Num(44)),
                    FillsRadius(Get(cp, "background"), 8), S("Reset Button")),
                  T(OrElse(Get(m, "resetText"), Str(<<"&", "$">>)),
                    F(P(mid, 10), P(btnY, 12), Num(130), Num(20)),
                    Font(16, "Roboto-Medium", Get(cp, "textSecondary"), "center"))>>)))

ModuleGeneric(m, x, y, width, cp) ==
  Calls(<<R(F(x, y, width, OrElse(Get(m, "height"), Num(100))),
            FillsRadius(Get(cp, "surface"), 8), Get(m, "type"))>>)

\* the constructor calls generateModule makes, or a throw
ModuleCalls(m, x, y, width, cp) ==
  IF Nullish(m) THEN CallsThrown
  ELSE LET type == Get(m, "type")
       IN CASE type = S("header") -> ModuleHeader(m, x, y, width, cp)
            [] type = S("hero") -> ModuleHero(m, x, y, width, cp)
            [] type = S("features") -> ModuleFeatures(m, x, y, width, cp)
            [] type = S("productGrid") -> ModuleProductGrid(m, x, y, width, cp)
            [] type = S("bottomNav") -> ModuleBottomNav(m, x, y, width, cp)
            [] type = S("loginForm") -> ModuleLoginForm(m, x, y, width, cp)
            [] type = S("customLoginForm") -> ModuleCustomLoginForm(m, x, y, width, cp)
            [] type = S("orderHeader") -> ModuleOrderHeader(m, x, y, width, cp)
            [] type \in {S("collapsiblePanel"), S("collapsePanel")} ->
                 ModuleCollapsePanel(m, x, y, width, cp)
            [] type = S("dataTable") -> ModuleDataTable(m, x, y, width, cp)
            [] type = S("actionButtons") -> ModuleActionButtons(m, x, y, width, cp)
            [] OTHER -> ModuleGeneric(m, x, y, width, cp)

\* runs the calls: the i-th draws identifiers callNo + 2(i-1) and the next
BuildLayers(calls, callNo) ==
  [i \in DOMAIN calls |->
     IF calls[i].kind = "rect"
     THEN createRectangle(calls[i].frame, calls[i].style, calls[i].name,
                          callNo + 2 * (i - 1))
     ELSE createText(calls[i].text, calls[i].frame, calls[i].style,
                     callNo + 2 * (i - 1))]

\* the layers the calls return; createText throws when its text has no
\* substring method
LayersOf(calls, callNo) ==
  IF calls.t THEN [t |-> TRUE, layers |-> <<>>]
  ELSE IF \E i \in DOMAIN calls.c :
            calls.c[i].kind = "text" /\ calls.c[i].text.k # "str"
  THEN [t |-> TRUE, layers |-> <<>>]
  ELSE [t |-> FALSE, layers |-> BuildLayers(calls.c, callNo)]

\* returns [t |-> threw, layers |-> the module's layers]
generateModule(m, x, y, width, cp, callNo) ==
  LayersOf(ModuleCalls(m, x, y, width, cp), callNo)

----------------------------------------------------------------------------
(* generateSketchJSON *)

\* a destructuring default: used only when the property is undefined
Default(v, d) == IF v.k = "undef" THEN d ELSE v

HexColor(digits) == Str(<<"#">> \o digits)

\* the colorPalette object of generateSketchJSON
ColorPalette(colors, theme) ==
  LET dark == theme = S("dark")
  IN Obj([primary |-> OrElse(Get(colors, "primary"),
                             HexColor(<<"0", "0", "7", "A", "F", "F">>)),
          secondary |-> OrElse(Get(colors, "secondary"),
                               HexColor(<<"5", "8", "5", "6", "D", "6">>)),
          background |-> OrElse(Get(colors, "background"),
                                IF dark THEN HexColor(<<"1", "C", "1", "C", "1", "E">>)
                                ELSE HexColor(<<"F", "2", "F", "2", "F", "7">>)),
          surface |-> OrElse(Get(colors, "surface"),
                             IF dark THEN HexColor(<<"2", "C", "2", "C", "2", "E">>)
                             ELSE White),
          textPrimary |-> OrElse(Get(colors, "textPrimary"),
                                 IF dark THEN White
                                 ELSE HexColor(<<"1", "C", "1", "C", "1", "E">>)),
          textSecondary |-> OrElse(Get(colors, "textSecondary"),
                                   HexColor(<<"8", "E", "8", "E", "9", "3">>))])

\* currentY after `currentY += module.height || 100`
NextY(currentY, m) == NumAdd(currentY, OrElse(Get(m, "height"), Num(100)))

\* lines 1170-1171: g is what generateModule returned for module m; acc is
\* [t |-> threw, layers |-> pushed so far, y |-> currentY, callNo |-> next identifier]
PushLayers(acc, g, m) ==
  IF g.t THEN [acc EXCEPT !.t = TRUE]
  ELSE [t |-> FALSE,
        layers |-> acc.layers \o g.layers,
        y |-> NextY(acc.y, m),
        callNo |-> acc.callNo + 2 * Len(g.layers)]

RECURSIVE AssembleModules(_, _, _, _, _)
\* modules.forEach from the i-th module on
AssembleModules(modules, i, contentWidth, cp, acc) ==
  IF i > Len(modules) \/ acc.t THEN acc
  ELSE AssembleModules(modules, i + 1, contentWidth, cp,
         PushLayers(acc,
                    generateModule(modules[i], Num(16), acc.y, contentWidth, cp,
                                   acc.callNo),
                    modules[i]))

\* lines 1170-1180: the module layers go into the artboard, the artboard
\* into a page, the page into a document; built is what the forEach did
AssembleDocument(pageName, artboard, built) ==
  IF built.t THEN [t |-> TRUE, doc |-> Undef]
  ELSE [t |-> FALSE,
        doc |-> generateSketchDocument(
                  <<createPage(pageName,
                               <<Set(artboard, "layers",
                                     Arr(Get(artboard, "layers").a \o built.layers))>>,
                               built.callNo)>>,
                  built.callNo + 1)]

\* returns [t |-> threw, doc |-> the document]; identifiers are drawn from
\* callNo on, in the order the code calls generateUUID
generateSketchJSON(config, callNo) ==
  IF Nullish(config) THEN [t |-> TRUE, doc |-> Undef]
  ELSE
  LET pageName == Default(Get(config, "pageName"), S("Design"))
      artboardSize == Default(Get(config, "artboardSize"),
                              Obj([width |-> Num(393), height |-> Num(852)]))
      theme == Default(Get(config, "theme"), S("light"))
      colors == Default(Get(config, "colors"), Obj([none |-> Undef]))
      modules == Default(Get(config, "modules"), Arr(<<>>))
  IN IF Nullish(colors) \/ Nullish(artboardSize) \/ ~IsArray(modules)
     THEN [t |-> TRUE, doc |-> Undef]
     ELSE
     AssembleDocument(
       pageName,
       createArtboard(pageName, Get(artboardSize, "width"), Get(artboardSize, "height"),
                      Get(ColorPalette(colors, theme), "background"), callNo),
       AssembleModules(modules.a, 1, NumSub(Get(artboardSize, "width"), Num(16 * 2)),
                       ColorPalette(colors, theme),
                       [t |-> FALSE, layers |-> <<>>, y |-> Num(0),
                        callNo |-> callNo + 3]))

----------------------------------------------------------------------------
(* The packer (packSketch) *)

\* a && b
AndThen(a, b) == IF Truthy(a) THEN b ELSE a

\* generateUniqueFilename(baseName), with Date.now() read as clock
generateUniqueFilename(baseName, clock) == baseName \o "_" \o ToString(clock)

\* createZipWithAdmZip(sourceDir, outputPath): the archive holds every
\* entry under sourceDir, by its path relative to sourceDir
createZipWithAdmZip(files, sourceDir, outputPath) ==
  LET under == {p \in DOMAIN files : IsPrefix(sourceDir, p) /\ p # sourceDir}
      zipPath(p) == SubSeq(p, Len(sourceDir) + 1, Len(p))
      entries == [z \in {zipPath(p) : p \in under} |-> files[sourceDir \o z]]
      archive == [type |-> "file", data |-> [fmt |-> "zip", entries |-> entries]]
  IN [p \in DOMAIN files \cup {outputPath} |->
        IF p = outputPath THEN archive ELSE files[p]]

\* documentData.pages || []
PagesOf(documentData) == OrElse(Get(documentData, "pages"), Arr(<<>>))

\* the element of pageIds.map(id => ...)
PageReference(id) ==
  Obj([_class |-> S("MSJSONFileReference"),
       _ref_class |-> S("MSImmutablePage"),
       _ref |-> Concat(S("pages/"), ToStr(id))])

\* the `document` object packSketch writes; identifiers it generates itself
\* are drawn from callNo on
PackDocument(documentData, callNo) ==
  LET given(name) == Truthy(Get(documentData, name))
      used(name) == IF given(name) THEN 0 ELSE 1
      n1 == callNo + used("do_objectID")
      n2 == n1 + used("assets")
      n3 == n2 + used("layerStyles")
      n4 == n3 + used("layerSymbols")
      n5 == n4 + used("layerTextStyles")
      pages == PagesOf(documentData).a
  IN Obj([_class |-> S("document"),
          do_objectID |-> IF given("do_objectID") THEN Get(documentData, "do_objectID")
                          ELSE UUID(callNo),
          appVersion |-> SKETCH_VERSION,
          build |-> Num(SKETCH_BUILD),
          currentPageIndex |-> OrElse(Get(documentData, "currentPageIndex"), Num(0)),
          assets |-> IF given("assets") THEN Get(documentData, "assets")
                     ELSE AssetCollection(n1),
          colorSpace |-> IF Get(documentData, "colorSpace") # Undef
                         THEN Get(documentData, "colorSpace") ELSE Num(1),
          foreignLayerStyles |-> Arr(<<>>),
          foreignSymbols |-> Arr(<<>>),
          foreignTextStyles |-> Arr(<<>>),
          foreignSwatches |-> Arr(<<>>),
          layerStyles |-> IF given("layerStyles") THEN Get(documentData, "layerStyles")
                          ELSE Container("sharedStyleContainer", n2),
          layerSymbols |-> IF given("layerSymbols") THEN Get(documentData, "layerSymbols")
                           ELSE Container("symbolContainer", n3),
          layerTextStyles |-> IF given("layerTextStyles")
                              THEN Get(documentData, "layerTextStyles")
                              ELSE Container("sharedTextStyleContainer", n4),
          sharedSwatches |-> Container("swatchContainer", n5),
          fontReferences |-> Arr(<<>>),
          documentState |-> Obj([_class |-> S("documentState")]),
          pages |-> Arr([i \in DOMAIN pages |->
                           PageReference(Get(pages[i], "do_objectID"))])])

\* `if (layer._class === 'artboard' && !layer.hasClickThrough) layer.hasClickThrough = true`
MarkLayer(layer) ==
  IF Get(layer, "_class") = S("artboard") /\ ~Truthy(Get(layer, "hasClickThrough"))
  THEN Set(layer, "hasClickThrough", JTrue) ELSE layer

\* the page after the body of pages.forEach: packSketch writes into the
\* caller's page object
MarkPage(page) ==
  LET marked == IF Truthy(Get(page, "hasClickThrough")) THEN page
                ELSE Set(page, "hasClickThrough", JTrue)
      layers == Get(page, "layers")
  IN IF Truthy(layers) /\ IsArray(layers)
     THEN Set(marked, "layers", Arr([i \in DOMAIN layers.a |-> MarkLayer(layers.a[i])]))
     ELSE marked

\* documentData after packSketch has run over its pages
MarkDocument(documentData) ==
  LET pages == Get(documentData, "pages")
  IN IF Truthy(pages) /\ IsArray(pages)
     THEN Set(documentData, "pages", Arr([i \in DOMAIN pages.a |-> MarkPage(pages.a[i])]))
     ELSE documentData

RECURSIVE WritePages(_, _, _, _)
\* pages.forEach(page => writeJSON(pagesDir, pageId + '.json', page)), from the i-th
WritePages(files, pagesDir, pages, i) ==
  IF i > Len(pages) THEN files
  ELSE WritePages(
         writeJSON(files, pagesDir,
                   Text(Get(pages[i], "do_objectID")) \o ".json", MarkPage(pages[i])),
         pagesDir, pages, i + 1)

\* the `created` block of meta.json
MetaCreated ==
  Obj([commit |-> S("238f363ed3de77eb1d86e03176f8a10f7928ed51"),
       appVersion |-> SKETCH_VERSION,
       build |-> Num(SKETCH_BUILD),
       app |-> S("com.bohemiancoding.sketch3"),
       compatibilityVersion |-> Num(99),
       coeditCompatibilityVersion |-> Num(99),
       version |-> Num(136),
       variant |-> S("NONAPPSTORE")])

\* the `meta` object packSketch writes: one pagesAndArtboards entry, keyed
\* by the first page (or by a fresh identifier), holding one artboard entry
PackMeta(pages, callNo) ==
  LET first == IF Len(pages) > 0 THEN pages[1] ELSE Undef
      layers == AndThen(first, Get(first, "layers"))
      layer0 == AndThen(layers, IF IsArray(layers) /\ Len(layers.a) > 0
                                THEN layers.a[1] ELSE Undef)
      givenPage == AndThen(first, Get(first, "do_objectID"))
      givenArtboard == AndThen(layer0, Get(layer0, "do_objectID"))
      n1 == callNo + (IF Truthy(givenPage) THEN 0 ELSE 1)
      pageId == IF Truthy(givenPage) THEN givenPage ELSE UUID(callNo)
      artboardId == IF Truthy(givenArtboard) THEN givenArtboard ELSE UUID(n1)
      artboardName == OrElse(AndThen(layer0, Get(layer0, "name")), S("Artboard"))
      pageName == OrElse(AndThen(first, Get(first, "name")), S("Page 1"))
  IN Obj([commit |-> S("eec98fa25f4692ad75f1a3b955a6293b4a93836e"),
          version |-> Num(136),
          compatibilityVersion |-> Num(99),
          app |-> S("com.bohemiancoding.sketch3"),
          autosaved |-> Num(0),
          pagesAndArtboards |->
            Map(<< <<ToStr(pageId),
                     Obj([name |-> pageName,
                          artboards |->
                            Map(<< <<ToStr(artboardId),
                                     Obj([name |-> artboardName])>> >>)])>> >>),
          variant |-> S("NONAPPSTORE"),
          fonts |-> Arr(<<>>),
          created |-> MetaCreated,
          appVersion |-> SKETCH_VERSION,
          build |-> Num(SKETCH_BUILD)])

\* what user[id] is set to; zoomValue 0.796296238899231 is kept to nine digits
UserPageState ==
  Obj([scrollOrigin |-> S("{-0.000000, -0.000000}"),
       zoomValue |-> Frac(796296238, 1000000000)])

RECURSIVE PackUserFrom(_, _, _)
PackUserFrom(user, pages, i) ==
  IF i > Len(pages) THEN user
  ELSE PackUserFrom(SetKey(user, ToStr(Get(pages[i], "do_objectID")), UserPageState),
                    pages, i + 1)

\* the `user` object packSketch writes
PackUser(pages) ==
  PackUserFrom(
    Map(<< <<S("document"),
             Obj([pageListHeight |-> Num(85), pageListCollapsed |-> Num(0)])>> >>),
    pages, 1)

\* packSketch throws a TypeError before writing anything when documentData
\* is null or undefined (line 965), when pages has no map method or a page
\* is null or undefined (line 966)
PackThrows(documentData) ==
  \/ Nullish(documentData)
  \/ ~IsArray(PagesOf(documentData))
  \/ \E i \in DOMAIN PagesOf(documentData).a : Nullish(PagesOf(documentData).a[i])

\* lines 965-1061: document.json, the page files, meta.json and user.json
PackFiles(files, sketchDir, documentData, callNo) ==
  LET pages == PagesOf(documentData).a
      pagesDir == Append(sketchDir, "pages")
      f1 == writeJSON(files, sketchDir, "document.json", PackDocument(documentData, callNo))
      f2 == WritePages(f1, pagesDir, pages, 1)
      f3 == writeJSON(f2, sketchDir, "meta.json", PackMeta(pages, callNo + 6))
  IN writeJSON(f3, sketchDir, "user.json", PackUser(pages))

\* packSketch as it would be if a failed validation were only logged
ValidationIgnored(validate, validation) == FALSE

\* lines 1063-1067: `if (validate) { ... if (!validation.valid) throw ... }`
ValidationThrows(validate, validation) == validate /\ ~validation.valid

\* new Error('Sketch validation failed'): the properties the error has
ValidationError == Obj([name |-> S("Error"), message |-> S("Sketch validation failed")])

\* any error the runtime raises (TypeError, ENOENT)
RuntimeError(name) == Obj([name |-> S(name)])

----------------------------------------------------------------------------
(* Export invocations.  Each invocation is one call of exportSketch, or   *)
(* of packSketch with a document its caller built, made by a process of   *)
(* its own; the processes share the output root and the wall clock.       *)
(* packSketch has no await: the steps of one invocation interleave with   *)
(* another's only at the file-system calls.                               *)

Invocations == {"a", "b"}

\* the largest value the clock reaches
MaxClock == 1

\* outputDir, the same for every invocation
OutputRoot == <<"sketch-output">>

\* the first identifier (Math.random outcome) of each invocation
FirstCall(i) == IF i = "a" THEN 0 ELSE 128
\* the first identifier the packer draws in each invocation
PackerCall(i) == FirstCall(i) + 100

NoFields == Obj([none |-> Undef])

\* a table whose column has a width and whose row ends in an action cell
ConfigTable ==
  Obj([pageName |-> S("Orders"),
       modules |-> Arr(<<
         Obj([type |-> S("dataTable"),
              columns |-> Arr(<<Obj([name |-> S("Item"), width |-> Num(120)])>>),
              rows |-> Arr(<<Arr(<<S("Pen"), S("Edit")>>)>>),
              hasActions |-> JTrue])>>)])

\* a table with a column that has a name and no width
ConfigNoWidth ==
  Obj([modules |-> Arr(<<
         Obj([type |-> S("dataTable"),
              columns |-> Arr(<<Obj([name |-> S("Item")])>>)])>>)])

\* a button without text
ConfigNoText ==
  Obj([modules |-> Arr(<<
         Obj([type |-> S("actionButtons"), buttons |-> Arr(<<NoFields>>)])>>)])

\* options: none given, and validation switched off
NoOptions == Undef
NoValidate == Obj([validate |-> JFalse])

\* the calls of exportSketch(config, outputDir, options) that are made
ExportCalls ==
  {<<ConfigTable, NoOptions>>, <<ConfigNoWidth, NoOptions>>,
   <<ConfigNoWidth, NoValidate>>, <<ConfigNoText, NoOptions>>}

\* line 952, after `options = options || {}`
ValidateOption(options) == Get(OrElse(options, NoFields), "validate") # JFalse

\* a page holding one artboard, as the constructors build it
PageWithArtboard(name, callNo) ==
  createPage(S(name),
             <<createArtboard(S(name), Num(393), Num(852), White, callNo)>>,
             callNo + 3)

\* a page without layers whose click-through the caller has switched off
PageWithoutClickThrough(name, callNo) ==
  Set(createPage(S(name), <<>>, callNo), "hasClickThrough", JFalse)

\* the documents packSketch is called with directly, built by the caller
\* with the constructors: one without pages, one with two pages, one with
\* a page that has no click-through
Documents(i) ==
  {generateSketchDocument(<<>>, FirstCall(i)),
   generateSketchDocument(<<PageWithArtboard("Home", FirstCall(i)),
                            PageWithArtboard("Cart", FirstCall(i) + 4)>>,
                          FirstCall(i) + 8),
   generateSketchDocument(<<PageWithoutClickThrough("Draft", FirstCall(i))>>,
                          FirstCall(i) + 1)}

\* row.pop() of the table rows: generateModule writes into the caller's config
PopRows(m) ==
  IF /\ ~Nullish(m)
     /\ Get(m, "type") = S("dataTable")
     /\ Truthy(Get(m, "hasActions"))
     /\ IsArray(Get(m, "rows"))
  THEN Set(m, "rows",
           Arr([r \in DOMAIN Get(m, "rows").a |->
                  IF IsArray(Get(m, "rows").a[r])
                  THEN Arr(RowCells(m, Get(m, "rows").a[r]))
                  ELSE Get(m, "rows").a[r]]))
  ELSE m

\* config after generateSketchJSON(config) has returned
ConfigAfter(config) ==
  IF IsArray(Get(config, "modules"))
  THEN Set(config, "modules",
           Arr([j \in DOMAIN Get(config, "modules").a |->
                  PopRows(Get(config, "modules").a[j])]))
  ELSE config

NotValidated == [valid |-> FALSE, errors |-> <<>>]

Idle ==
  [op |-> "none", config |-> Undef, validate |-> TRUE, doc |-> Undef,
   filename |-> "", uniqueFilename |-> "", validated |-> FALSE,
   validation |-> NotValidated, error |-> Undef, wroteZip |-> FALSE]

\* the validator harness at rest
HarnessIdle ==
  /\ vin = [kind |-> "none", v |-> Undef]
  /\ vout = [called |-> FALSE, t |-> FALSE, valid |-> FALSE, e |-> <<>>]
  /\ vstep = 0

Init ==
  /\ now = 0
  /\ fs = [p \in {} |-> Dir]
  /\ pc = [i \in Invocations |-> "idle"]
  /\ inv = [i \in Invocations |-> Idle]
  /\ HarnessIdle

\* path.join(baseDir, uniqueFilename)
SketchDir(i) == Append(OutputRoot, inv[i].uniqueFilename)
\* path.join(baseDir, uniqueFilename + '.sketch')
SketchPath(i) == Append(OutputRoot, inv[i].uniqueFilename \o ".sketch")

\* lines 2104-2108: g is what generateSketchJSON(config) did
Generated(i, config, validate, g) ==
  IF g.t
  THEN /\ pc' = [pc EXCEPT ![i] = "failed"]
       /\ inv' = [inv EXCEPT ![i] =
                    [@ EXCEPT !.op = "exportSketch", !.config = config,
                              !.validate = validate,
                              !.error = RuntimeError("TypeError")]]
  ELSE /\ pc' = [pc EXCEPT ![i] = "ensure"]
       /\ inv' = [inv EXCEPT ![i] =
                    [@ EXCEPT !.op = "exportSketch",
                              !.config = ConfigAfter(config),
                              !.validate = validate,
                              !.doc = g.doc,
                              !.filename =
                                Text(OrElse(Get(config, "filename"), S("ai-design")))]]

\* exportSketch(config, outputDir, options) up to its call of packSketch
ExportSketch(i) ==
  /\ pc[i] = "idle"
  /\ \E call \in ExportCalls :
       Generated(i, call[1], ValidateOption(call[2]),
                 generateSketchJSON(call[1], FirstCall(i)))
  /\ UNCHANGED <<now, fs, vin, vout, vstep>>

\* packSketch(documentData, undefined, outputDir) called directly: lines
\* 950-952
PackSketch(i) ==
  /\ pc[i] = "idle"
  /\ \E documentData \in Documents(i) :
       inv' = [inv EXCEPT ![i] =
                 [@ EXCEPT !.op = "packSketch",
                           !.validate = ValidateOption(NoOptions),
                           !.doc = documentData, !.filename = "design"]]
  /\ pc' = [pc EXCEPT ![i] = "ensure"]
  /\ UNCHANGED <<now, fs, vin, vout, vstep>>

\* ensureOutputDir: the existence check
EnsureCheck(i) ==
  /\ pc[i] = "ensure"
  /\ pc' = [pc EXCEPT ![i] = IF existsSync(fs, OutputRoot) THEN "name" ELSE "mkdir"]
  /\ UNCHANGED <<now, fs, inv, vin, vout, vstep>>

\* ensureOutputDir: mkdirSync(outputDir, {recursive: true})
EnsureMkdir(i) ==
  /\ pc[i] = "mkdir"
  /\ fs' = mkdirSync(fs, OutputRoot)
  /\ pc' = [pc EXCEPT ![i] = "name"]
  /\ UNCHANGED <<now, inv, vin, vout, vstep>>

\* lines 954-963: the unique name, then a fresh directory of that name.
\* Date.now() returns the time of the call: the clock may have advanced
\* since it was last read, and never goes back.
Prepare(i) ==
  /\ pc[i] = "name"
  /\ \E clock \in now..MaxClock :
       LET uniqueFilename == generateUniqueFilename(inv[i].filename, clock)
           sketchDir == Append(OutputRoot, uniqueFilename)
           cleared == IF existsSync(fs, sketchDir) THEN rmSync(fs, sketchDir) ELSE fs
       IN /\ now' = clock
          /\ fs' = mkdirSync(mkdirSync(cleared, sketchDir), Append(sketchDir, "pages"))
          /\ inv' = [inv EXCEPT ![i].uniqueFilename = uniqueFilename]
  /\ pc' = [pc EXCEPT ![i] = "write"]
  /\ UNCHANGED <<vin, vout, vstep>>

\* lines 965-1061: the four kinds of file; writing into a directory that
\* is gone fails with ENOENT
Write(i) ==
  /\ pc[i] = "write"
  /\ IF PackThrows(inv[i].doc)
     THEN /\ pc' = [pc EXCEPT ![i] = "failed"]
          /\ inv' = [inv EXCEPT ![i].error = RuntimeError("TypeError")]
          /\ fs' = fs
     ELSE IF ~existsSync(fs, Append(SketchDir(i), "pages"))
     THEN /\ pc' = [pc EXCEPT ![i] = "failed"]
          /\ inv' = [inv EXCEPT ![i].error = RuntimeError("ENOENT")]
          /\ fs' = fs
     ELSE /\ fs' = PackFiles(fs, SketchDir(i), inv[i].doc, PackerCall(i))
          /\ inv' = [inv EXCEPT ![i].doc = MarkDocument(inv[i].doc)]
          /\ pc' = [pc EXCEPT ![i] = IF inv[i].validate THEN "validate" ELSE "zip"]
  /\ UNCHANGED <<now, vin, vout, vstep>>

\* lines 1065-1068: validation is what validateSketchDirectory returned
Validated(i, validation) ==
  IF ValidationThrows(inv[i].validate, validation)
  THEN /\ pc' = [pc EXCEPT ![i] = "failed"]
       /\ inv' = [inv EXCEPT ![i] =
                    [@ EXCEPT !.validated = TRUE, !.validation = validation,
                              !.error = ValidationError]]
  ELSE /\ pc' = [pc EXCEPT ![i] = "zip"]
       /\ inv' = [inv EXCEPT ![i] =
                    [@ EXCEPT !.validated = TRUE, !.validation = validation]]

\* lines 1063-1069
Validate(i) ==
  /\ pc[i] = "validate"
  /\ Validated(i, validateSketchDirectory(fs, SketchDir(i)))
  /\ UNCHANGED <<now, fs, vin, vout, vstep>>

\* lines 1071-1087: the archive; readdirSync of a directory that is gone
\* fails with ENOENT
Zip(i) ==
  /\ pc[i] = "zip"
  /\ IF existsSync(fs, SketchDir(i))
     THEN /\ fs' = createZipWithAdmZip(fs, SketchDir(i), SketchPath(i))
          /\ inv' = [inv EXCEPT ![i].wroteZip = TRUE]
          /\ pc' = [pc EXCEPT ![i] = "done"]
     ELSE /\ fs' = fs
          /\ inv' = [inv EXCEPT ![i].error = RuntimeError("ENOENT")]
          /\ pc' = [pc EXCEPT ![i] = "failed"]
  /\ UNCHANGED <<now, vin, vout, vstep>>

Next ==
  \/ \E i \in Invocations : ExportSketch(i)
  \/ \E i \in Invocations : PackSketch(i)
  \/ \E i \in Invocations : EnsureCheck(i)
  \/ \E i \in Invocations : EnsureMkdir(i)
  \/ \E i \in Invocations : Prepare(i)
  \/ \E i \in Invocations : Write(i)
  \/ \E i \in Invocations : Validate(i)
  \/ \E i \in Invocations : Zip(i)

Spec == Init /\ [][Next]_vars

----------------------------------------------------------------------------
(* The validators on damaged input.  vin holds a value under one of the   *)
(* validate* functions, or a serialized directory under                   *)
(* validateSketchDirectory.  It starts as what the assembler and the      *)
(* packer produce for ConfigTable; up to MaxEdits edits damage it, and    *)
(* then the validator is called once.                                     *)

MaxEdits == 2

HarnessDir == <<"sketch-output", "design_0">>

\* the graph generateSketchJSON returns and the nodes in it
HarnessGraph == generateSketchJSON(ConfigTable, 0).doc
HarnessPage == Get(HarnessGraph, "pages").a[1]
HarnessArtboard == Get(HarnessPage, "layers").a[1]

\* the first layer of the artboard with the given _class
LayerOfClass(artboard, class) ==
  LET layers == Get(artboard, "layers").a
  IN layers[CHOOSE i \in DOMAIN layers :
              /\ Get(layers[i], "_class") = S(class)
              /\ \A j \in 1..(i - 1) : Get(layers[j], "_class") # S(class)]

HarnessRectangle == LayerOfClass(HarnessArtboard, "rectangle")
HarnessText == LayerOfClass(HarnessArtboard, "text")

\* the directory packSketch writes for the graph
HarnessFiles ==
  PackFiles(mkdirSync([p \in {} |-> Dir], Append(HarnessDir, "pages")),
            HarnessDir, HarnessGraph, 100)

FileValue(files, dir, filename) == files[Append(dir, filename)].data.v

HarnessDocument == FileValue(HarnessFiles, HarnessDir, "document.json")
HarnessMeta == FileValue(HarnessFiles, HarnessDir, "meta.json")

NodeKinds == {"artboard", "page", "document", "meta", "text", "rectangle"}

Directory(files) == [k |-> "dir", files |-> files]

Subjects ==
  {[kind |-> "artboard", v |-> HarnessArtboard],
   [kind |-> "page", v |-> HarnessPage],
   [kind |-> "document", v |-> HarnessDocument],
   [kind |-> "meta", v |-> HarnessMeta],
   [kind |-> "text", v |-> HarnessText],
   [kind |-> "rectangle", v |-> HarnessRectangle],
   [kind |-> "directory", v |-> Directory(HarnessFiles)]}

NotCalled == [called |-> FALSE, t |-> FALSE, valid |-> FALSE, e |-> <<>>]

InitV ==
  /\ now = 0
  /\ fs = [p \in {} |-> Dir]
  /\ pc = [i \in Invocations |-> "idle"]
  /\ inv = [i \in Invocations |-> Idle]
  /\ vin \in Subjects
  /\ vout = NotCalled
  /\ vstep = 0

\* an element that is not an object: null, or a number
Malformed == {Null, Num(7)}

\* fields the validators require
RequiredFields ==
  {"_class", "do_objectID", "name", "frame", "layers", "pages", "points",
   "attributedString", "pagesAndArtboards", "exportOptions", "groupLayout",
   "commit", "assets", "document"}

\* the three references a damaged manifest may hold: an empty path, the
\* bare prefix, and the path of a page that was never written
BadRefs == {EmptyStr, S("pages/"), Concat(S("pages/"), UUID(900))}

\* delete v.name
Delete(v, name) ==
  IF v.k = "map"
  THEN Map(SelectSeq(v.m, LAMBDA e : e[1] # S(name)))
  ELSE Obj([x \in DOMAIN v.f \ {name} |-> v.f[x]])

\* the names of v's own properties, among the required ones
FieldsOf(v) ==
  IF v.k = "obj" THEN DOMAIN v.f \cap RequiredFields
  ELSE IF v.k = "map" THEN {x \in RequiredFields : MapIndex(v.m, S(x), 1) # 0}
  ELSE {}

\* v.name[k - 1] = x
SetElement(v, name, k, x) == Set(v, name, Arr([Get(v, name).a EXCEPT ![k] = x]))

\* the indices of the array v.name, none if it is not an array
Indices(v, name) ==
  IF v.k = "obj" /\ IsArray(Get(v, name)) THEN DOMAIN Get(v, name).a ELSE {}

Editable == ~vout.called /\ vstep < MaxEdits

Edited(v) ==
  /\ vin' = [vin EXCEPT !.v = v]
  /\ vstep' = vstep + 1
  /\ UNCHANGED <<now, fs, pc, inv, vout>>

\* an element of artboard.layers or page.layers becomes a non-object
BreakLayer ==
  /\ Editable
  /\ vin.kind \in {"artboard", "page"}
  /\ \E k \in Indices(vin.v, "layers"), x \in Malformed :
       Edited(SetElement(vin.v, "layers", k, x))

\* an element of document.pages becomes a non-object
BreakPageRef ==
  /\ Editable
  /\ vin.kind = "document"
  /\ \E k \in Indices(vin.v, "pages"), x \in Malformed :
       Edited(SetElement(vin.v, "pages", k, x))

\* an element of text.attributedString.attributes becomes a non-object
BreakAttribute ==
  /\ Editable
  /\ vin.kind = "text"
  /\ \E k \in Indices(Get(vin.v, "attributedString"), "attributes"), x \in Malformed :
       Edited(Set(vin.v, "attributedString",
                  SetElement(Get(vin.v, "attributedString"), "attributes", k, x)))

\* an entry of meta.pagesAndArtboards, or the artboards of one, becomes a
\* non-object
MalformedEntries == Malformed \cup {Obj([name |-> S("Orders"), artboards |-> Arr(<<Null>>)])}

BreakMetaEntry ==
  /\ Editable
  /\ vin.kind = "meta"
  /\ Get(vin.v, "pagesAndArtboards").k = "map"
  /\ \E k \in DOMAIN Get(vin.v, "pagesAndArtboards").m, x \in MalformedEntries :
       Edited(Set(vin.v, "pagesAndArtboards",
                  Map([Get(vin.v, "pagesAndArtboards").m EXCEPT ![k] = <<@[1], x>>])))

\* a required field goes missing
DropField ==
  /\ Editable
  /\ vin.kind \in NodeKinds
  /\ \E name \in FieldsOf(vin.v) : Edited(Delete(vin.v, name))

\* rect.points loses its last point
DropPoint ==
  /\ Editable
  /\ vin.kind = "rectangle"
  /\ Indices(vin.v, "points") # {}
  /\ Edited(Set(vin.v, "points",
                Arr(SubSeq(Get(vin.v, "points").a, 1, Len(Get(vin.v, "points").a) - 1))))

\* a point of rect.points gets a malformed point string
BreakPoint ==
  /\ Editable
  /\ vin.kind = "rectangle"
  /\ \E k \in Indices(vin.v, "points") :
       Edited(SetElement(vin.v, "points", k,
                         Set(Get(vin.v, "points").a[k], "point", S("oops"))))

\* the paths of the regular files of the directory
FilesIn(files) == {p \in DOMAIN files : files[p].type = "file"}
JsonFilesIn(files) == {p \in FilesIn(files) : files[p].data.fmt = "json"}
\* the files that are not parseable JSON
Unreadable(files) == FilesIn(files) \ JsonFilesIn(files)

\* a file or the pages directory is removed
RemoveFile ==
  /\ Editable
  /\ vin.kind = "directory"
  /\ \E p \in DOMAIN vin.v.files \ {SubSeq(HarnessDir, 1, n) : n \in 1..Len(HarnessDir)} :
       Edited(Directory(rmSync(vin.v.files, p)))

\* a file's content is replaced by text that is not JSON
CorruptFile ==
  /\ Editable
  /\ vin.kind = "directory"
  /\ \E p \in JsonFilesIn(vin.v.files) :
       Edited(Directory([vin.v.files EXCEPT ![p] = TextFile]))

\* a required field goes missing from a file
EditFile ==
  /\ Editable
  /\ vin.kind = "directory"
  /\ \E p \in JsonFilesIn(vin.v.files) :
       \E name \in FieldsOf(vin.v.files[p].data.v) :
         Edited(Directory([vin.v.files EXCEPT
                             ![p] = JsonFile(Delete(vin.v.files[p].data.v, name))]))

\* a page reference of document.json gets another path
SetPageRef ==
  /\ Editable
  /\ vin.kind = "directory"
  /\ Append(HarnessDir, "document.json") \in JsonFilesIn(vin.v.files)
  /\ \E k \in Indices(FileValue(vin.v.files, HarnessDir, "document.json"), "pages"),
        ref \in BadRefs :
       Edited(Directory(
         [vin.v.files EXCEPT ![Append(HarnessDir, "document.json")] =
            JsonFile(SetElement(@.data.v, "pages", k,
                                Set(@.data.v.f.pages.a[k], "_ref", ref)))]))

\* a channel value that is no number in [0,1]: too large, or a string
BadChannels == {Num(2), S("red")}

IsColor(v) == v.k = "obj" /\ "_class" \in DOMAIN v.f /\ v.f["_class"] = S("color")

\* v with one channel of one of its Color nodes replaced by x
RECURSIVE Damaged(_, _, _)
Damaged(v, channel, x) ==
  CASE IsColor(v) -> {Set(v, channel, x)}
    [] v.k = "obj" ->
         UNION {{Set(v, name, w) : w \in Damaged(v.f[name], channel, x)} :
                  name \in DOMAIN v.f}
    [] v.k = "arr" ->
         UNION {{Arr([v.a EXCEPT ![i] = w]) : w \in Damaged(v.a[i], channel, x)} :
                  i \in DOMAIN v.a}
    [] OTHER -> {}

\* a Color node of a text or a rectangle gets a bad channel
BreakColor ==
  /\ Editable
  /\ vin.kind \in {"text", "rectangle"}
  /\ \E channel \in {"red", "alpha"}, x \in BadChannels :
       \E w \in Damaged(vin.v, channel, x) : Edited(w)

\* the background colour of an artboard gets a bad channel
BreakBackground ==
  /\ Editable
  /\ vin.kind = "artboard"
  /\ IsColor(Get(vin.v, "backgroundColor"))
  /\ \E x \in BadChannels :
       Edited(Set(vin.v, "backgroundColor", Set(Get(vin.v, "backgroundColor"), "blue", x)))

\* a border or a shadow, as Sketch writes them, with a colour of its own
StyleLayer(class) ==
  Obj([_class |-> S(class), isEnabled |-> JTrue, color |-> Black])

\* the style of a text or a rectangle gets a border or a shadow
AddStyleLayer ==
  /\ Editable
  /\ vin.kind \in {"text", "rectangle"}
  /\ Get(vin.v, "style").k = "obj"
  /\ \E name \in {"borders", "shadows"} :
       Edited(Set(vin.v, "style",
                  Set(Get(vin.v, "style"), name,
                      Arr(<<StyleLayer(IF name = "borders" THEN "border" ELSE "shadow")>>))))

\* a child layer gets a type tag that no layer variant has
RetagLayer ==
  /\ Editable
  /\ vin.kind \in {"artboard", "page"}
  /\ \E k \in Indices(vin.v, "layers") :
       /\ Get(vin.v, "layers").a[k].k = "obj"
       /\ Edited(SetElement(vin.v, "layers", k,
                            Set(Get(vin.v, "layers").a[k], "_class", S("hologram"))))

\* a child layer gets the identifier of the node that holds it
CopyId ==
  /\ Editable
  /\ vin.kind \in {"artboard", "page"}
  /\ \E k \in Indices(vin.v, "layers") :
       /\ Get(vin.v, "layers").a[k].k = "obj"
       /\ Edited(SetElement(vin.v, "layers", k,
                            Set(Get(vin.v, "layers").a[k], "do_objectID",
                                Get(vin.v, "do_objectID"))))

\* what a validate* function did, and what validateSketchDirectory returned
NodeResult(r) == [called |-> TRUE, t |-> r.t, valid |-> ~r.t /\ r.e = <<>>, e |-> r.e]
DirResult(r) == [called |-> TRUE, t |-> FALSE, valid |-> r.valid, e |-> r.errors]

RunValidator(subject) ==
  CASE subject.kind = "artboard" -> NodeResult(validateArtboard(subject.v, "artboard"))
    [] subject.kind = "page" -> NodeResult(validatePage(subject.v, "page"))
    [] subject.kind = "document" -> NodeResult(validateDocument(subject.v, "document"))
    [] subject.kind = "meta" -> NodeResult(validateMeta(subject.v, "meta"))
    [] subject.kind = "text" -> NodeResult(validateText(subject.v, "text"))
    [] subject.kind = "rectangle" ->
         NodeResult(Ok(validateRectangle(subject.v, "rectangle")))
    [] subject.kind = "directory" ->
         DirResult(validateSketchDirectory(subject.v.files, HarnessDir))

\* one call of the validator on vin
ValidateSubject ==
  /\ ~vout.called
  /\ vout' = RunValidator(vin)
  /\ UNCHANGED <<now, fs, pc, inv, vin, vstep>>

NextV ==
  \/ BreakLayer
  \/ BreakPageRef
  \/ BreakAttribute
  \/ BreakMetaEntry
  \/ DropField
  \/ DropPoint
  \/ BreakPoint
  \/ RemoveFile
  \/ CorruptFile
  \/ EditFile
  \/ SetPageRef
  \/ CopyId
  \/ BreakColor
  \/ BreakBackground
  \/ AddStyleLayer
  \/ RetagLayer
  \/ ValidateSubject

SpecV == InitV /\ [][NextV]_vars

----------------------------------------------------------------------------
(* Properties of the export invocations, stated for Spec *)

Range(seq) == {seq[k] : k \in DOMAIN seq}

\* word occurs in text
Contains(text, word) ==
  \E k \in 1..(Len(text) - Len(word) + 1) : SubSeq(text, k, k + Len(word) - 1) = word

\* invocation i has its output name, and no other invocation has the same
Named(i) == inv[i].uniqueFilename # ""
Alone(i) == \A j \in Invocations \ {i} : inv[j].uniqueFilename # inv[i].uniqueFilename

\* packSketch has written the four kinds of file of invocation i
Written(i) == pc[i] \in {"validate", "zip", "done"} \/ inv[i].validated

Clean == [valid |-> TRUE, errors |-> <<>>]

\* C1: for every document the assembler produces, the directory packSketch
\* writes for it passes validateSketchDirectory: valid is true and the
\* list of violations is empty.
C1_RoundTripClean ==
  \A i \in Invocations :
    inv[i].op = "exportSketch" /\ Written(i) /\ Alone(i)
      => validateSketchDirectory(fs, SketchDir(i)) = Clean

\* the graph generateSketchJSON returned is in inv[i].doc, untouched, until
\* packSketch writes the pages
Fresh(i) == inv[i].op = "exportSketch" /\ pc[i] \in {"ensure", "mkdir", "name", "write"}

GraphViolations(doc) ==
  validateDocument(doc, "document").e
  \o Flatten([k \in DOMAIN Get(doc, "pages").a |->
                validatePage(Get(doc, "pages").a[k], "page").e])

\* C2: validateDocument on the graph generateSketchJSON returned, and
\* validatePage on each of its pages, report no violation.
C2_FreshGraphClean ==
  \A i \in Invocations : Fresh(i) => GraphViolations(inv[i].doc) = <<>>

FailedValidation(i) == inv[i].validate /\ inv[i].validated /\ ~inv[i].validation.valid

\* C7: an invocation with validation enabled whose validation reported a
\* violation has failed and has written no archive; with validation
\* enabled an archive is written only after a validation that returned
\* valid = true.
C7_NoArchiveUnlessValid ==
  \A i \in Invocations :
    /\ FailedValidation(i) => pc[i] = "failed" /\ ~inv[i].wroteZip
    /\ inv[i].validate /\ (pc[i] \in {"zip", "done"} \/ inv[i].wroteZip)
         => inv[i].validated /\ inv[i].validation.valid

\* an invocation whose validation found violations has failed, without an
\* archive at its path
C7_Witness ==
  \E i \in Invocations :
    /\ FailedValidation(i)
    /\ Len(inv[i].validation.errors) > 0
    /\ pc[i] = "failed"
    /\ ~inv[i].wroteZip
    /\ ~existsSync(fs, SketchPath(i))

\* the violation msg can be read from the error: a property of the error
\* is a list holding it, or a string with its text
Carries(error, msg) ==
  \E name \in DOMAIN error.f :
    \/ error.f[name].k = "arr" /\ S(msg) \in Range(error.f[name].a)
    \/ error.f[name].k = "str" /\ Contains(Text(error.f[name]), msg)

\* C8: the error packSketch throws when validation fails carries every
\* violation validateSketchDirectory returned.
C8_ErrorCarriesViolations ==
  \A i \in Invocations :
    FailedValidation(i) /\ pc[i] = "failed"
      => \A k \in DOMAIN inv[i].validation.errors :
           Carries(inv[i].error, inv[i].validation.errors[k])

\* the identifier of the document invocation i serializes
OwnDocumentId(i) == Get(PackDocument(inv[i].doc, PackerCall(i)), "do_objectID")

\* the archive of a finished invocation holds that invocation's document
ArchiveKept(i) ==
  /\ existsSync(fs, SketchPath(i))
  /\ Get(fs[SketchPath(i)].data.entries[<<"document.json">>].data.v, "do_objectID")
       = OwnDocumentId(i)

\* the directory of a finished invocation holds that invocation's document
DirectoryKept(i) ==
  /\ Append(SketchDir(i), "document.json") \in JsonFilesIn(fs)
  /\ Get(FileValue(fs, SketchDir(i), "document.json"), "do_objectID") = OwnDocumentId(i)

\* C9: two invocations with the same base filename and output root have
\* distinct output directories and archive paths, and what a finished
\* invocation wrote is never deleted or overwritten by another.
C9_DistinctOutputs ==
  /\ \A i, j \in Invocations :
       i # j /\ Named(i) /\ Named(j) /\ inv[i].filename = inv[j].filename
         => SketchDir(i) # SketchDir(j) /\ SketchPath(i) # SketchPath(j)
  /\ \A i \in Invocations : pc[i] = "done" => ArchiveKept(i) /\ DirectoryKept(i)

StripJson(filename) == SubSeq(filename, 1, Len(filename) - 5)

\* the keys of meta.json's pagesAndArtboards
MetaPageKeys(files, dir) ==
  {Text(e[1]) :
     e \in Range(EntriesOf(Get(FileValue(files, dir, "meta.json"), "pagesAndArtboards")))}

\* the identifiers document.json's pages refer to
DocumentRefIds(files, dir) ==
  {Text(ReplaceFirst(Get(r, "_ref"), "pages/")) :
     r \in Range(Get(FileValue(files, dir, "document.json"), "pages").a)}

\* the identifiers the files under pages/ are named by
PageFileIds(files, dir) ==
  {StripJson(p[Len(p)]) :
     p \in {q \in FilesIn(files) : SubSeq(q, 1, Len(q) - 1) = Append(dir, "pages")}}

\* the identifiers of the artboards of the page file of pageId
ArtboardIds(files, dir, pageId) ==
  IF dir \o <<"pages", pageId \o ".json">> \in JsonFilesIn(files)
  THEN LET page == files[dir \o <<"pages", pageId \o ".json">>].data.v
       IN {Text(Get(l, "do_objectID")) :
             l \in {m \in Range(Get(page, "layers").a) : Get(m, "_class") = S("artboard")}}
  ELSE {}

\* every artboard key under a page of meta.json is an artboard of that page file
ArtboardKeysResolve(files, dir) ==
  \A e \in Range(EntriesOf(Get(FileValue(files, dir, "meta.json"), "pagesAndArtboards"))) :
    \A a \in Range(EntriesOf(Get(e[2], "artboards"))) :
      Text(a[1]) \in ArtboardIds(files, dir, Text(e[1]))

\* C10: after packSketch completes, the keys of meta.json's
\* pagesAndArtboards, the page references of document.json and the page
\* files under pages/ name the same set of pages, and every artboard key
\* under a page is an artboard of that page file.
C10_PageKeysAgree ==
  \A i \in Invocations :
    pc[i] = "done" /\ Alone(i)
      => /\ MetaPageKeys(fs, SketchDir(i)) = DocumentRefIds(fs, SketchDir(i))
         /\ DocumentRefIds(fs, SketchDir(i)) = PageFileIds(fs, SketchDir(i))
         /\ ArtboardKeysResolve(fs, SketchDir(i))

----------------------------------------------------------------------------
(* Properties of the validators, stated for SpecV *)

\* C3: no validate* function throws, whatever its input: each call
\* returns its list of violations.
C3_ValidatorNeverThrows == vout.called => ~vout.t

\* the violations of each point of rect.points, checked by itself
PointViolations(rect) ==
  UNION {Range(validateCurvePoint(Get(rect, "points").a[k], Idx("rectangle.points", k))) :
           k \in Indices(rect, "points")}

\* the violations of v under a validate* function, none if it throws
Found(r) == IF r.t THEN {} ELSE Range(r.e)

\* the page file a reference resolves to, <<>> if it names none
RefFile(dir, ref) ==
  IF ref.k = "str" /\ Len(ref.s) > 1 /\ ref.s[1] = "pages/"
  THEN dir \o <<"pages", Join(Tail(ref.s)) \o ".json">>
  ELSE <<>>

\* the page files document.json refers to
ReferencedFiles(files, dir) ==
  IF Append(dir, "document.json") \in JsonFilesIn(files)
  THEN {RefFile(dir, Get(r, "_ref")) :
          r \in {x \in Range(IF IsArray(Get(FileValue(files, dir, "document.json"), "pages"))
                             THEN Get(FileValue(files, dir, "document.json"), "pages").a
                             ELSE <<>>) : ~Nullish(x)}}
  ELSE {}

\* the page identifiers validateUser is given, none if document.json
\* cannot be read
UserPageIds(files, dir) ==
  IF Append(dir, "document.json") \in JsonFilesIn(files)
     /\ ~PageIdsOf(FileValue(files, dir, "document.json")).t
  THEN PageIdsOf(FileValue(files, dir, "document.json")).v
  ELSE <<>>

\* the violations of every file that is present and parseable, each file
\* validated by itself
FileViolations(files, dir) ==
  (IF Append(dir, "document.json") \in JsonFilesIn(files)
   THEN Found(validateDocument(FileValue(files, dir, "document.json"), "document"))
   ELSE {})
  \cup (IF Append(dir, "meta.json") \in JsonFilesIn(files)
        THEN Found(validateMeta(FileValue(files, dir, "meta.json"), "meta"))
        ELSE {})
  \cup (IF Append(dir, "user.json") \in JsonFilesIn(files)
        THEN Range(validateUser(FileValue(files, dir, "user.json"),
                                UserPageIds(files, dir), "user"))
        ELSE {})
  \cup UNION {Found(validatePage(files[p].data.v, "page")) :
                p \in ReferencedFiles(files, dir) \cap JsonFilesIn(files)}

\* a rectangle's points are checked one by one whatever their number
C4_PointsChecked ==
  vout.called /\ vin.kind = "rectangle" => PointViolations(vin.v) \subseteq Range(vout.e)

\* the files that are present are validated whichever file is missing
C4_PresentFilesChecked ==
  vout.called /\ vin.kind = "directory" /\ Cardinality(Unreadable(vin.v.files)) = 0
    => FileViolations(vin.v.files, HarnessDir) \subseteq Range(vout.e)

\* C4: one run of the validator reports every violation of its input: the
\* points of a rectangle are checked even when their number is wrong, and
\* the files that are present are validated even when a required file is
\* missing.
C4_Exhaustive == C4_PointsChecked /\ C4_PresentFilesChecked

\* C5: when a file of the directory is not parseable JSON,
\* validateSketchDirectory reports a violation that names that file, and
\* the violations of all the other files are still reported.
C5_ParseFailureScoped ==
  vout.called /\ vin.kind = "directory" /\ MissingFiles(vin.v.files, HarnessDir) = <<>>
    => /\ \A p \in Unreadable(vin.v.files) :
            \E k \in DOMAIN vout.e : Contains(vout.e[k], p[Len(p)])
       /\ FileViolations(vin.v.files, HarnessDir) \subseteq Range(vout.e)

\* the reference resolves to a page file that exists and validates clean
Resolves(files, dir, ref) ==
  /\ RefFile(dir, ref) \in JsonFilesIn(files)
  /\ validatePage(files[RefFile(dir, ref)].data.v, "page") = Ok(<<>>)

\* C6: validateSketchDirectory returns valid = true only if every page
\* reference of document.json resolves to a page file that exists under
\* pages/ and was validated; an empty path or the bare prefix "pages/"
\* resolves to no file.
C6_ValidOnlyIfRefsResolve ==
  vout.called /\ vin.kind = "directory" /\ vout.valid
    => \A r \in Range(Get(FileValue(vin.v.files, HarnessDir, "document.json"), "pages").a) :
         Resolves(vin.v.files, HarnessDir, Get(r, "_ref"))

----------------------------------------------------------------------------
(* Properties of the keying of meta.json, stated for Spec *)

\* invocation i passed validateSketchDirectory, and its directory is as
\* the validator saw it
PassedValidation(i) ==
  /\ pc[i] \in {"zip", "done"}
  /\ inv[i].validated /\ inv[i].validation.valid
  /\ Alone(i)

\* every page key of meta.json has a file under pages/
MetaKeysHaveFiles(files, dir) == MetaPageKeys(files, dir) \subseteq PageFileIds(files, dir)

\* every page file document.json refers to has an entry in meta.json
PageFilesHaveKeys(files, dir) ==
  (DocumentRefIds(files, dir) \cap PageFileIds(files, dir)) \subseteq MetaPageKeys(files, dir)

\* C11: validateSketchDirectory reports a violation when a page key of
\* meta.json's pagesAndArtboards has no file under pages/, or when a page
\* file document.json refers to has no entry in pagesAndArtboards: a
\* directory it found valid has neither.
C11_MetaKeyingChecked ==
  \A i \in Invocations :
    PassedValidation(i)
      => MetaKeysHaveFiles(fs, SketchDir(i)) /\ PageFilesHaveKeys(fs, SketchDir(i))

----------------------------------------------------------------------------
(* Properties of the identifiers *)

\* the do_objectID of every node of the tree v, one element per node
RECURSIVE AllIds(_)
AllIds(v) ==
  CASE v.k = "obj" ->
         LET names == SetToSeq(DOMAIN v.f)
         IN (IF "do_objectID" \in DOMAIN v.f /\ v.f["do_objectID"].k = "str"
             THEN <<v.f["do_objectID"]>> ELSE <<>>)
            \o Flatten([i \in DOMAIN names |-> AllIds(v.f[names[i]])])
    [] v.k = "arr" -> Flatten([i \in DOMAIN v.a |-> AllIds(v.a[i])])
    [] v.k = "map" -> Flatten([i \in DOMAIN v.m |-> AllIds(v.m[i][2])])
    [] OTHER -> <<>>

HasDuplicates(seq) == \E i, j \in DOMAIN seq : i < j /\ seq[i] = seq[j]

\* C12: when two nodes of a validated artboard or page carry the same
\* do_objectID, the validator reports at least one violation.
C12_DuplicateIdsReported ==
  vout.called /\ ~vout.t /\ vin.kind \in {"artboard", "page"}
  /\ HasDuplicates(AllIds(vin.v))
    => Len(vout.e) > 0

----------------------------------------------------------------------------
(* The pure functions of the generator, each applied once to arguments    *)
(* drawn from a bounded set: vin holds the arguments, vout the result.    *)

\* floor(16 * Math.random())
Sixteenths == 0..15

\* the draws of one generateUUID call: a at every position, b for index 19
DrawsOf(a, b) == [j \in 1..31 |-> IF j = 16 THEN b ELSE a]

DrawInputs ==
  {[kind |-> "draws", v |-> [draws |-> DrawsOf(a, b)]] : a \in Sixteenths, b \in Sixteenths}

\* which generateUUID call gave an identifier of the graph assembled from
\* call 0 on: RandomDraws spells the call number in the first two draws
CallOf(id) == 16 * HexValue(id.s[1]) + HexValue(id.s[2])

\* the generateUUID calls an outcome is chosen for: 0..MaxCall
MaxCall == 11

\* outcomes of the random source: every call draws as RandomDraws says,
\* except that call c draws what call d draws (c = d: no exception)
OutcomeInputs ==
  {[kind |-> "outcome", v |-> [c |-> c, d |-> d]] : c \in 0..MaxCall, d \in 0..MaxCall}

\* the identifiers ids, one per node, when the calls draw as the outcome says
Reissued(ids, outcome) ==
  [n \in DOMAIN ids |->
     UUID(IF CallOf(ids[n]) = outcome.c THEN outcome.d ELSE CallOf(ids[n]))]

\* the identifiers of the nodes of generateSketchJSON(ConfigTable) under
\* an outcome
IdsUnder(outcome) == Reissued(AllIds(HarnessGraph), outcome)

\* colour strings: '#' and up to MaxColorLen characters (a hex digit, a
\* zero, a sign, a letter that is no hex digit), the six-digit red, and
\* values without '#'
MaxColorLen == 3
ColorChars == {"F", "0", "-", "G"}
ColorStrings ==
  {Str(<<"#">> \o cs) : cs \in UNION {[1..n -> ColorChars] : n \in 0..MaxColorLen}}
  \cup {HexColor(<<"F", "F", "0", "0", "0", "0">>),
        Str(<<"F", "F", "0", "0", "0", "0">>), EmptyStr, Undef}
ColorInputs == {[kind |-> "color", v |-> [colorStr |-> c]] : c \in ColorStrings}

----------------------------------------------------------------------------
(* LayoutValidator (sketch-generator.cjs) *)

\* a <= b; any comparison with NaN is false
NumLe(a, b) == a.d # 0 /\ b.d # 0 /\ a.n * b.d <= b.n * a.d
\* a !== b: NaN differs from everything, itself included
StrictNe(a, b) == IF a.k = "num" /\ b.k = "num" /\ (a.d = 0 \/ b.d = 0) THEN TRUE ELSE a # b

\* new LayoutValidator(options): the object's fields
LayoutValidator(options) ==
  [artboardWidth |-> OrElse(Get(options, "artboardWidth"), Num(393)),
   artboardHeight |-> OrElse(Get(options, "artboardHeight"), Num(852)),
   padding |-> OrElse(Get(options, "padding"), Num(16)),
   moduleGap |-> OrElse(Get(options, "moduleGap"), Num(8)),
   modules |-> <<>>,
   modulePositions |-> <<>>]

\* _calculateY(type)
calculateY(this) ==
  IF Len(this.modules) = 0 THEN this.padding
  ELSE LET lastModule == this.modules[Len(this.modules)]
       IN NumAdd(NumAdd(Get(lastModule, "y"), Get(lastModule, "height")),
                 this.moduleGap)

\* addModule(module): the object afterwards
addModule(this, module) ==
  LET width == OrElse(Get(module, "width"), this.artboardWidth)
      y == IF Get(module, "y") # Undef THEN Get(module, "y") ELSE calculateY(this)
      moduleData ==
        Obj([id |-> Get(module, "id"), type |-> Get(module, "type"),
             x |-> this.padding, y |-> y,
             width |-> NumSub(width, NumMul(this.padding, Num(2))),
             height |-> Get(module, "height"), originalY |-> y])
  IN [this EXCEPT
        !.modules = Append(@, moduleData),
        !.modulePositions =
          Append(@, Obj([id |-> Get(module, "id"), type |-> Get(module, "type"),
                         x |-> Get(moduleData, "x"), y |-> Get(moduleData, "y"),
                         right |-> NumAdd(Get(moduleData, "x"),
                                          Get(moduleData, "width")),
                         bottom |-> NumAdd(Get(moduleData, "y"),
                                           Get(moduleData, "height"))]))]

\* the index pairs (i, j), i < j, in the order of the two nested loops
IndexPairs(n) == Flatten([i \in 1..n |-> [k \in 1..(n - i) |-> <<i, i + k>>]])

\* one entry of an overlap list; the message text is left out
Overlap(type, a, b) ==
  [type |-> type, moduleA |-> Get(a, "id"), moduleB |-> Get(b, "id")]

\* _checkVerticalOverlap(modules)
checkVerticalOverlap(modules) ==
  LET pairs == IndexPairs(Len(modules))
      hit(p) == /\ NumGt(ToNum(Get(modules[p[1]], "bottom")), ToNum(Get(modules[p[2]], "y")))
                /\ NumLt(ToNum(Get(modules[p[1]], "y")), ToNum(Get(modules[p[2]], "y")))
  IN [k \in DOMAIN SelectSeq(pairs, hit) |->
        Overlap("vertical", modules[SelectSeq(pairs, hit)[k][1]],
                modules[SelectSeq(pairs, hit)[k][2]])]

\* !(a.hi <= b.lo || b.hi <= a.lo) for the fields lo and hi
RangesMeet(a, b, lo, hi) ==
  ~(\/ NumLe(ToNum(Get(a, hi)), ToNum(Get(b, lo)))
    \/ NumLe(ToNum(Get(b, hi)), ToNum(Get(a, lo))))

\* _checkHorizontalOverlap(modules)
checkHorizontalOverlap(modules) ==
  LET pairs == IndexPairs(Len(modules))
      hit(p) == /\ RangesMeet(modules[p[1]], modules[p[2]], "y", "bottom")
                /\ RangesMeet(modules[p[1]], modules[p[2]], "x", "right")
  IN [k \in DOMAIN SelectSeq(pairs, hit) |->
        Overlap("horizontal", modules[SelectSeq(pairs, hit)[k][1]],
                modules[SelectSeq(pairs, hit)[k][2]])]

\* _checkBoundaryOverflow(modules): per module, the sides it leaves
checkBoundaryOverflow(this, modules) ==
  LET side(m, name, out) ==
        IF out THEN <<[type |-> "boundary", moduleId |-> Get(m, "id"), side |-> name]>>
        ELSE <<>>
  IN Flatten([i \in DOMAIN modules |->
       side(modules[i], "left", NumLt(ToNum(Get(modules[i], "x")), Num(0)))
       \o side(modules[i], "top", NumLt(ToNum(Get(modules[i], "y")), Num(0)))
       \o side(modules[i], "right",
               NumGt(ToNum(Get(modules[i], "right")), this.artboardWidth))
       \o side(modules[i], "bottom",
               NumGt(ToNum(Get(modules[i], "bottom")), this.artboardHeight))])

RECURSIVE autoFixStackFrom(_, _, _, _, _)
\* the loop of _autoFixStack from the i-th module on
autoFixStackFrom(this, modules, i, currentY, fixed) ==
  IF i > Len(modules) THEN fixed
  ELSE LET module == modules[i]
           originalY == Get(module, "originalY")
           height == Get(module, "height")
       IN IF originalY # Undef /\ StrictNe(originalY, currentY)
          THEN autoFixStackFrom(this, modules, i + 1,
                 NumAdd(NumAdd(originalY, height), this.moduleGap),
                 Append(fixed, Set(Set(module, "y", originalY),
                                   "bottom", NumAdd(originalY, height))))
          ELSE autoFixStackFrom(this, modules, i + 1,
                 NumAdd(currentY, NumAdd(height, this.moduleGap)),
                 Append(fixed, Set(Set(module, "y", currentY),
                                   "bottom", NumAdd(currentY, height))))

\* _autoFixStack(modules)
autoFixStack(this, modules) ==
  autoFixStackFrom(this, modules, 1, this.padding, <<>>)

RECURSIVE autoFixGridFrom(_, _, _, _, _)
\* the loop of _autoFixGrid from the i-th module on; colHeights is the
\* pair of column heights
autoFixGridFrom(this, modules, i, colHeights, fixed) ==
  IF i > Len(modules) THEN fixed
  ELSE LET module == modules[i]
           colWidth == NumDiv(NumSub(this.artboardWidth,
                                     NumMul(this.padding, Num(3))), Num(2))
           minCol == IF NumLt(colHeights[2], colHeights[1]) THEN 1 ELSE 0
           x == NumAdd(this.padding,
                       NumMul(Num(minCol), NumAdd(colWidth, this.padding)))
           y == colHeights[minCol + 1]
           placed == [f \in DOMAIN module.f \cup {"x", "y", "width", "right", "bottom"} |->
                        CASE f = "x" -> x
                          [] f = "y" -> y
                          [] f = "width" -> colWidth
                          [] f = "right" -> NumAdd(x, colWidth)
                          [] f = "bottom" -> NumAdd(y, Get(module, "height"))
                          [] OTHER -> module.f[f]]
       IN autoFixGridFrom(this, modules, i + 1,
            [colHeights EXCEPT ![minCol + 1] =
               NumAdd(@, NumAdd(Get(module, "height"), this.moduleGap))],
            Append(fixed, Obj(placed)))

\* _autoFixGrid(modules)
autoFixGrid(this, modules) ==
  autoFixGridFrom(this, modules, 1, <<this.padding, this.padding>>, <<>>)

\* the object validate returns, without the report text
LayoutResult(this, vertical, horizontal, overflows, modules, wasAutoFixed) ==
  [hasOverlaps |-> Len(vertical) > 0 \/ Len(horizontal) > 0,
   hasOverflows |-> Len(overflows) > 0,
   overlaps |-> vertical \o horizontal,
   overflows |-> overflows,
   modules |-> modules,
   wasAutoFixed |-> wasAutoFixed]

\* lines 754-772: the layout after the fix, checked again
Refixed(this, resultModules) ==
  LayoutResult(this, checkVerticalOverlap(resultModules),
               checkHorizontalOverlap(resultModules),
               checkBoundaryOverflow(this, resultModules), resultModules, TRUE)

\* validate(options)
validateLayout(this, options) ==
  LET autoFix == Default(Get(options, "autoFix"), JFalse)
      fixStrategy == Default(Get(options, "fixStrategy"), S("stack"))
      found == LayoutResult(this, checkVerticalOverlap(this.modulePositions),
                            checkHorizontalOverlap(this.modulePositions),
                            checkBoundaryOverflow(this, this.modulePositions),
                            this.modulePositions, FALSE)
  IN IF Truthy(autoFix) /\ (found.hasOverlaps \/ found.hasOverflows)
     THEN IF fixStrategy = S("grid")
          THEN Refixed(this, autoFixGrid(this, this.modulePositions))
          ELSE Refixed(this, autoFixStack(this, this.modulePositions))
     ELSE found

\* frames handed to the layer constructors: every width and height of
\* -MaxSide..MaxSide, through each constructor
MaxSide == 2
Sides == {Num(n) : n \in (0 - MaxSide)..MaxSide}
Constructors == {"createLayerBase", "createRectangle", "createText", "createArtboard"}
LayerInputs ==
  {[kind |-> "createLayer", v |-> [ctor |-> c, width |-> w, height |-> h]] :
     c \in Constructors, w \in Sides, h \in Sides}

\* createText(text, frame, { fontFamily, fontSize }): texts with and without
\* an ideograph, families inside and outside CHINESE_FONT_MAP
Texts == {Str(<<"O", "K">>), Str(<<"@">>), Str(<<"O", "@", "K">>)}
Families == {Undef, S("Roboto-Bold"), S("Roboto-Light"), S("Arial"),
             S("PingFangSC-Regular")}
FontSizes == {Undef, Num(18), Num(12), Num(13)}
TextInputs ==
  {[kind |-> "createText", v |-> [text |-> t, fontFamily |-> f, fontSize |-> z]] :
     t \in Texts, f \in Families, z \in FontSizes}

\* createStyle(options): every subset of the text options, each with a
\* truthy value
TextOptions == {"fontFamily", "fontSize", "displayFontSize", "color", "alignment"}
OptionValue(name) ==
  CASE name = "fontFamily" -> S("Roboto-Bold")
    [] name = "fontSize" -> Num(18)
    [] name = "displayFontSize" -> Num(22)
    [] name = "color" -> Color(Num(1), Num(0), Num(0), Num(1))
    [] name = "alignment" -> Num(2)
    [] OTHER -> Undef
OptionsOf(names) == Obj([x \in names \cup {"fills"} |->
                           IF x = "fills" THEN Arr(<<>>) ELSE OptionValue(x)])
StyleInputs ==
  {[kind |-> "createStyle", v |-> [options |-> OptionsOf(names)]] :
     names \in SUBSET TextOptions}

\* module records handed to generateSketchJSON: a field whose choice is
\* undefined is left out of the record
Module(type, choice) ==
  Obj([x \in {"type"} \cup {f \in DOMAIN choice : choice[f] # Undef} |->
         IF x = "type" THEN S(type) ELSE choice[x]])
\* a config object: likewise, without a type
Config(choice) ==
  Obj([x \in {f \in DOMAIN choice : choice[f] # Undef} |-> choice[x]])

Absent(value) == {Undef, value}
Heights == Absent(Num(40))
Titles == Absent(S("Orders"))

\* the sub-records of the lists: each with and without its fields
ProductLists ==
  {Undef, Arr(<<Obj([name |-> S("Pen"), price |-> S("$2")])>>),
   Arr(<<Obj([name |-> S("Pen")]), NoFields>>)}
FieldLists ==
  {Undef, Arr(<<Obj([label |-> S("Name"), value |-> S("Ann")])>>),
   Arr(<<Obj([label |-> S("Name")])>>), Arr(<<Obj([value |-> S("Ann")])>>)}
ColumnLists ==
  {Undef, Arr(<<Obj([name |-> S("Item"), width |-> Num(120)])>>),
   Arr(<<Obj([name |-> S("Item")])>>), Arr(<<Obj([width |-> Num(120)])>>)}
RowLists == Absent(Arr(<<Arr(<<S("Pen"), S("Edit")>>)>>))
ButtonLists ==
  {Undef, Arr(<<Obj([text |-> S("Save"), primary |-> JTrue])>>),
   Arr(<<Obj([text |-> S("Back")])>>), Arr(<<Obj([primary |-> JTrue])>>)}

\* the modules of each known type, over the combinations of their fields
KnownModules ==
  {Module("header", c) : c \in [title : Titles, height : Heights]}
  \cup {Module("hero", c) :
          c \in [title : Titles, subtitle : Absent(S("Today")),
                 cta : Absent(S("Go")), height : Heights]}
  \cup {Module("features", c) :
          c \in [sectionTitle : Titles, items : Absent(Arr(<<S("Fast"), S("Safe")>>)),
                 height : Heights]}
  \cup {Module("productGrid", c) :
          c \in [sectionTitle : Titles, products : ProductLists, height : Heights]}
  \cup {Module("bottomNav", c) :
          c \in [items : Absent(Arr(<<S("Home"), S("Me")>>)), height : Heights]}
  \cup {Module("loginForm", c) : c \in [title : Titles, buttons : Absent(JTrue)]}
  \cup {Module("customLoginForm", c) :
          c \in [title : Titles, loginText : Absent(S("Enter"))]}
  \cup {Module("orderHeader", c) :
          c \in [title : Titles, subtitle : Absent(S("Today")),
                 status : Absent(S("Paid")), height : Heights]}
  \cup {Module("collapsePanel", c) :
          c \in [title : Titles, fields : FieldLists, height : Heights]}
  \cup {Module("dataTable", c) :
          c \in [title : Titles, columns : ColumnLists, rows : RowLists,
                 hasActions : Absent(JTrue), height : Heights]}
  \cup {Module("actionButtons", c) : c \in [buttons : ButtonLists, height : Heights]}

\* modules whose type is no case of the switch
UnknownModules == {Module("banner", c) : c \in [height : Heights]}

\* the types whose first layer is a rectangle of the full width at the cursor
CursorTypes ==
  {S("header"), S("hero"), S("features"), S("productGrid"), S("bottomNav"),
   S("orderHeader"), S("collapsePanel"), S("dataTable"), S("actionButtons"),
   S("banner")}

\* the config objects: page-level fields with an absent, empty or
\* one-module list, one module alone, and one module next to a module of unknown type
PageConfigs ==
  {Config(c) :
     c \in [artboardSize : Absent(Obj([width |-> Num(800), height |-> Num(600)])),
            theme : Absent(S("dark")),
            colors : Absent(Obj([background |-> Str(<<"#", "F", "F", "0", "0", "0", "0">>)])),
            modules : {Undef, Arr(<<>>),
                       Arr(<<Module("header", [title |-> S("Orders")])>>)}]}
ModuleConfigs ==
  {Obj([modules |-> Arr(<<m>>)]) : m \in KnownModules \cup UnknownModules}
PairConfigs ==
  {Obj([modules |-> Arr(<<m, u>>)]) : m \in KnownModules \cup UnknownModules,
                                     u \in UnknownModules}
  \cup {Obj([modules |-> Arr(<<u, m>>)]) : u \in UnknownModules,
                                          m \in KnownModules \cup UnknownModules}
ConfigInputs ==
  {[kind |-> "config", v |-> [config |-> c]] :
     c \in PageConfigs \cup ModuleConfigs \cup PairConfigs}

\* the module lists handed to a LayoutValidator with default options: up
\* to MaxModules modules, each 100 or 900 high, placed by the validator or
\* at the fixed y of 50
MaxModules == 2
LayoutChoices == [height : {Num(100), Num(900)}, y : Absent(Num(50))]
LayoutModule(i, choice) ==
  Obj([f \in {"id", "type", "height"} \cup (IF choice.y = Undef THEN {} ELSE {"y"}) |->
         CASE f = "id" -> Str(<<"m", ToString(i)>>)
           [] f = "type" -> S("card")
           [] f = "height" -> choice.height
           [] OTHER -> choice.y])
LayoutLists ==
  UNION {{[i \in 1..n |-> LayoutModule(i, choices[i])] : choices \in [1..n -> LayoutChoices]} :
           n \in 1..MaxModules}
LayoutOptions ==
  {NoFields, Obj([autoFix |-> JTrue]),
   Obj([autoFix |-> JTrue, fixStrategy |-> S("grid")])}
LayoutInputs ==
  {[kind |-> "layout", v |-> [modules |-> ms, options |-> o]] :
     ms \in LayoutLists, o \in LayoutOptions}

FunctionInputs ==
  DrawInputs \cup OutcomeInputs \cup ColorInputs \cup LayerInputs
    \cup TextInputs \cup StyleInputs \cup ConfigInputs \cup LayoutInputs

Returned(v) == [called |-> TRUE, t |-> FALSE, v |-> v]

InitF ==
  /\ now = 0
  /\ fs = [p \in {} |-> Dir]
  /\ pc = [i \in Invocations |-> "idle"]
  /\ inv = [i \in Invocations |-> Idle]
  /\ vin \in FunctionInputs
  /\ vout = NotCalled
  /\ vstep = 0

Called(result) ==
  /\ ~vout.called
  /\ vout' = result
  /\ UNCHANGED <<now, fs, pc, inv, vin, vstep>>

\* generateUUID()
CallGenerateUUID ==
  /\ vin.kind = "draws"
  /\ Called(Returned(GenerateUUID(vin.v.draws)))

\* generateSketchJSON(ConfigTable): the identifiers its nodes get
CallAssemble ==
  /\ vin.kind = "outcome"
  /\ Called(Returned(IdsUnder(vin.v)))

\* parseColor(colorStr)
CallParseColor ==
  /\ vin.kind = "color"
  /\ Called(Returned(parseColor(vin.v.colorStr)))

\* one call of a layer constructor with the frame { x: 0, y: 0, width, height }
Constructed(ctor, frame) ==
  CASE ctor = "createLayerBase" ->
         createLayerBase("group", frame, Obj([none |-> Undef]), 0)
    [] ctor = "createRectangle" ->
         createRectangle(frame, Obj([none |-> Undef]), S("Rectangle"), 0)
    [] ctor = "createText" ->
         createText(Str(<<"O", "K">>), frame, Obj([none |-> Undef]), 0)
    [] OTHER ->
         createArtboard(S("Artboard"), frame.width, frame.height, White, 0)

CallCreateLayer ==
  /\ vin.kind = "createLayer"
  /\ Called(Returned(Constructed(vin.v.ctor,
                                 F(Num(0), Num(0), vin.v.width, vin.v.height))))

CallCreateText ==
  /\ vin.kind = "createText"
  /\ Called(Returned(createText(vin.v.text, F(Num(0), Num(0), Num(100), Num(20)),
                                Obj([fontFamily |-> vin.v.fontFamily,
                                     fontSize |-> vin.v.fontSize]), 0)))

CallCreateStyle ==
  /\ vin.kind = "createStyle"
  /\ Called(Returned(createStyle(vin.v.options, 0)))

\* generateSketchJSON(config) twice on the same config object: g is what
\* the first call did, again what the second did on the config it left
Assembled(config, g, again) ==
  Called([called |-> TRUE, t |-> g.t,
          v |-> [doc |-> g.doc, config |-> IF g.t THEN config ELSE ConfigAfter(config),
                 again |-> again.doc]])

CallGenerateSketchJSON ==
  /\ vin.kind = "config"
  /\ Assembled(vin.v.config, generateSketchJSON(vin.v.config, 0),
               generateSketchJSON(ConfigAfter(vin.v.config), 0))

RECURSIVE addModules(_, _, _)
\* addModule for each module of the list, from the i-th on
addModules(this, modules, i) ==
  IF i > Len(modules) THEN this
  ELSE addModules(addModule(this, modules[i]), modules, i + 1)

\* new LayoutValidator(), addModule for each module, then validate(options)
CallValidateLayout ==
  /\ vin.kind = "layout"
  /\ Called(Returned(validateLayout(addModules(LayoutValidator(NoFields),
                                               vin.v.modules, 1),
                                    vin.v.options)))

NextF ==
  \/ CallGenerateUUID
  \/ CallAssemble
  \/ CallParseColor
  \/ CallCreateLayer
  \/ CallCreateText
  \/ CallCreateStyle
  \/ CallGenerateSketchJSON
  \/ CallValidateLayout

SpecF == InitF /\ [][NextF]_vars

\* C13: in a document produced by generateSketchJSON, whatever the random
\* source returns, no two nodes carry the same do_objectID.
C13_GeneratedIdsDistinct ==
  vout.called /\ vin.kind = "outcome" => ~HasDuplicates(vout.v)

UpperHex == {HexDigits[i] : i \in 1..16}

\* C14: every value generateUUID returns has 36 characters, '-' at
\* indices 8, 13, 18 and 23, '4' at index 14, one of 8, 9, A, B at index
\* 19 and an uppercase hexadecimal digit elsewhere, and isValidUUID
\* accepts it.
C14_UUIDFormat ==
  vout.called /\ vin.kind = "draws"
    => /\ vout.v.k = "str"
       /\ Len(vout.v.s) = 36
       /\ \A i \in 0..35 :
            IF i \in {8, 13, 18, 23} THEN vout.v.s[i + 1] = "-"
            ELSE IF i = 14 THEN vout.v.s[i + 1] = "4"
            ELSE IF i = 19 THEN vout.v.s[i + 1] \in {"8", "9", "A", "B"}
            ELSE vout.v.s[i + 1] \in UpperHex
       /\ IsValidUUID(vout.v)

\* generateUUID has returned an identifier whose variant character is B
\* and whose other digits are F
C14_Witness ==
  /\ vout.called /\ vin.kind = "draws"
  /\ vout.v.s[20] = "B" /\ vout.v.s[1] = "F" /\ vout.v.s[36] = "F"

\* a channel value is a number in the closed interval [0,1]
InUnitInterval(c) ==
  c.k = "num" /\ c.d # 0 /\ ~NumLt(c, Num(0)) /\ ~NumGt(c, Num(1))

ChannelsInRange(color) ==
  \A name \in {"red", "green", "blue", "alpha"} : InUnitInterval(Get(color, name))

\* C15: for every input string, each channel of the colour parseColor
\* returns lies in [0,1], and parseColor('#FF0000') is red 1, green 0,
\* blue 0, alpha 1.
C15_ChannelsInUnitInterval ==
  vout.called /\ vin.kind = "color"
    => /\ ChannelsInRange(vout.v)
       /\ vin.v.colorStr = HexColor(<<"F", "F", "0", "0", "0", "0">>)
            => vout.v = Color(Num(1), Num(0), Num(0), Num(1))

----------------------------------------------------------------------------
(* Properties of the colour and layer checks, stated for SpecV *)

BadColor(v) ==
  IsColor(v) /\ \E name \in {"red", "green", "blue", "alpha"} : ~InUnitInterval(Get(v, name))

\* the paths, as the validators write them, of the Color nodes of v that
\* have a bad channel
RECURSIVE BadColorPaths(_, _)
BadColorPaths(v, path) ==
  CASE BadColor(v) -> {path}
    [] v.k = "obj" ->
         UNION {BadColorPaths(v.f[name], path \o "." \o name) : name \in DOMAIN v.f}
    [] v.k = "arr" -> UNION {BadColorPaths(v.a[i], Idx(path, i)) : i \in DOMAIN v.a}
    [] OTHER -> {}

\* C16: a validated text, rectangle or artboard has, for every Color node
\* in it with a channel that is no number in [0,1], a violation that
\* names that node: fill, border and shadow colours, the colours of text
\* attributes and text styles, and artboard backgrounds.
C16_BadColorsReported ==
  vout.called /\ ~vout.t /\ vin.kind \in {"text", "rectangle", "artboard"}
    => \A p \in BadColorPaths(vin.v, vin.kind) :
         \E k \in DOMAIN vout.e : Contains(vout.e[k], p)

\* the type tags of the layer variants
LayerVariants == {"rectangle", "text", "group", "shapeGroup", "artboard"}

\* the child is an object whose type tag is a string that no variant has
Unrecognized(layer) ==
  /\ layer.k = "obj"
  /\ Get(layer, "_class").k = "str"
  /\ \A class \in LayerVariants : Get(layer, "_class") # S(class)

\* C17: when the layers of a validated artboard or page hold a child whose
\* _class is not a declared layer variant, the result has at least one
\* violation for that child.
C17_UnknownTagReported ==
  vout.called /\ ~vout.t /\ vin.kind \in {"artboard", "page"}
    => \A i \in Indices(vin.v, "layers") :
         Unrecognized(Get(vin.v, "layers").a[i])
           => \E k \in DOMAIN vout.e :
                Contains(vout.e[k], Idx(vin.kind \o ".layers", i))

(***************************************************************************)
(* Properties of the node constructors, stated for SpecF                   *)
(***************************************************************************)

Negative(v) == v.k = "num" /\ v.d # 0 /\ v.n < 0

\* C18: a layer constructor (createLayerBase, createRectangle, createText,
\* createArtboard) never returns a layer whose frame has a negative width or
\* a negative height.
C18_NoNegativeFrame ==
  vout.called /\ ~vout.t /\ vin.kind = "createLayer"
    => /\ ~Negative(Get(Get(vout.v, "frame"), "width"))
       /\ ~Negative(Get(Get(vout.v, "frame"), "height"))

\* the font descriptor of the style-level text style, and of the first
\* attribute run of the attributed string
StyleFont(layer) ==
  Get(Get(Get(Get(Get(layer, "style"), "textStyle"), "encodeAttributes"),
          "MSAttributedStringFontAttribute"), "attributes")
AttributeFont(layer) ==
  Get(Get(Get(Get(layer, "attributedString"), "attributes").a[1], "attributes"),
      "MSAttributedStringFontAttribute")

\* C19: for a text whose content holds an ideograph, the style-level family
\* is the substitute of the map and differs from the attribute-level family,
\* the style-level size is round(attribute-level size * 1.2), and the
\* attribute-level font is the requested family and size, whatever family
\* was requested.
C19_ChineseFontSubstituted ==
  vout.called /\ ~vout.t /\ vin.kind = "createText" /\ HasChinese(vin.v.text)
    /\ vin.v.fontFamily # Undef /\ vin.v.fontSize # Undef
    => LET styleFont == StyleFont(vout.v)
           attributeFont == Get(AttributeFont(vout.v), "attributes")
       IN /\ Get(styleFont, "name") = S("PingFangSC-Regular")
          /\ Get(styleFont, "name") # Get(attributeFont, "name")
          /\ Get(styleFont, "size")
               = MathRound(NumMul(Get(attributeFont, "size"), Frac(12, 10)))
          /\ Get(attributeFont, "name") = vin.v.fontFamily
          /\ Get(attributeFont, "size") = vin.v.fontSize

Supplied(options) ==
  \E name \in TextOptions : Get(options, name) # Undef

\* C20: createStyle returns a style with a textStyle exactly when a font,
\* colour or alignment option was supplied.
C20_TextStyleIffSupplied ==
  vout.called /\ ~vout.t /\ vin.kind = "createStyle"
    => (Get(vout.v, "textStyle") # Undef <=> Supplied(vin.v.options))

SubBlocks == {"blur", "borderOptions", "colorControls"}
StyleArrays == {"fills", "borders", "shadows", "innerShadows"}

\* C21: the style returned by createStyle holds the blur, borderOptions and
\* colorControls blocks, each with isEnabled = false, and holds fills,
\* borders, shadows and innerShadows as arrays.
C21_StyleDefaults ==
  vout.called /\ ~vout.t /\ vin.kind = "createStyle"
    => /\ \A block \in SubBlocks :
            Get(Get(vout.v, block), "isEnabled") = JFalse
       /\ \A name \in StyleArrays : IsArray(Get(vout.v, name))

(***************************************************************************)
(* Properties of the assembler, stated for SpecF                           *)
(***************************************************************************)

\* the artboard of the document generateSketchJSON returned
ArtboardOf(doc) == Get(Get(doc, "pages").a[1], "layers").a[1]

\* colorPalette.background for a config
BackgroundOf(config) ==
  Get(ColorPalette(Default(Get(config, "colors"), NoFields),
                   Default(Get(config, "theme"), S("light"))), "background")

\* the first child of the artboard is the background rectangle: the frame
\* of the artboard at the origin, one fill of the given colour, a clipping
\* mask; no later child is one
BackgroundFirst(artboard, backgroundColor) ==
  LET layers == Get(artboard, "layers")
      first == layers.a[1]
      frame == Get(first, "frame")
      fills == Get(Get(first, "style"), "fills")
  IN /\ IsArray(layers) /\ Len(layers.a) > 0
     /\ Get(first, "_class") = S("rectangle")
     /\ Get(frame, "x") = Num(0) /\ Get(frame, "y") = Num(0)
     /\ Get(frame, "width") = Get(Get(artboard, "frame"), "width")
     /\ Get(frame, "height") = Get(Get(artboard, "frame"), "height")
     /\ IsArray(fills) /\ Len(fills.a) = 1
     /\ Get(fills.a[1], "color") = parseColor(backgroundColor)
     /\ Get(first, "hasClippingMask") = JTrue
     /\ \A i \in 2..Len(layers.a) : Get(layers.a[i], "hasClippingMask") # JTrue

\* C22: the artboard createArtboard returns, and the artboard of every
\* document generateSketchJSON returns, has the background rectangle as its
\* first child; the module layers come after it.
C22_BackgroundFirst ==
  /\ vout.called /\ ~vout.t /\ vin.kind = "config"
       => BackgroundFirst(ArtboardOf(vout.v.doc), BackgroundOf(vin.v.config))
  /\ vout.called /\ ~vout.t /\ vin.kind = "createLayer"
       /\ vin.v.ctor = "createArtboard"
       => BackgroundFirst(vout.v, White)

\* a document with a background colour of its own and module layers after
\* the background rectangle
C22_Witness ==
  /\ vout.called /\ ~vout.t /\ vin.kind = "config"
  /\ Get(vin.v.config, "colors") # Undef
  /\ IsArray(Get(vin.v.config, "modules"))
  /\ Len(Get(vin.v.config, "modules").a) = 1
  /\ Len(Get(ArtboardOf(vout.v.doc), "layers").a) > 1

(***************************************************************************)
(* Further properties of the export invocations, stated for Spec           *)
(***************************************************************************)

\* C23: once a document graph is in the hands of packSketch and of the
\* validator, no step changes any field of any of its nodes.
C23_GraphUnchanged ==
  [][\A i \in Invocations : inv[i].op # "none" => inv'[i].doc = inv[i].doc]_vars

\* invocation i has returned from ensureOutputDir
Ensured(i) ==
  \/ pc[i] \in {"name", "write", "validate", "zip", "done"}
  \/ pc[i] = "failed" /\ inv[i].doc # Undef

\* C27: whatever the interleaving of the existence checks and the creations
\* of two invocations, each invocation returns from ensureOutputDir and the
\* output root is a directory from then on.
C27_RootCreatedOnce ==
  \A i \in Invocations :
    Ensured(i) => existsSync(fs, OutputRoot) /\ fs[OutputRoot] = Dir

\* both invocations found the root absent; one has created it and the
\* other is about to create it again
C27_Witness ==
  /\ pc["a"] = "name" /\ pc["b"] = "mkdir"
  /\ existsSync(fs, OutputRoot)

(***************************************************************************)
(* Further properties of the assembler, stated for SpecF                   *)
(***************************************************************************)

\* the config holds one module, of a known type
OneKnownModule(config) ==
  /\ IsArray(Get(config, "modules"))
  /\ Len(Get(config, "modules").a) = 1
  /\ Get(config, "modules").a[1] \in KnownModules

\* C24: for a module of a known type, with any combination of its optional
\* fields and of their sub-fields present, generateSketchJSON returns
\* without throwing.
C24_OptionalFieldsTolerated ==
  vout.called /\ vin.kind = "config" /\ OneKnownModule(vin.v.config) => ~vout.t

\* the modules of the config, and the children of the artboard built for it
ModulesOf(config) == Get(config, "modules").a
LayersOfArtboard(doc) == Get(ArtboardOf(doc), "layers").a

\* the config starts with a module of unknown type, followed by nothing, by
\* another such module or by a header
StartsUnknown(config) ==
  /\ IsArray(Get(config, "modules"))
  /\ Len(ModulesOf(config)) >= 1
  /\ ModulesOf(config)[1] \in UnknownModules
  /\ \A j \in 2..Len(ModulesOf(config)) :
       \/ ModulesOf(config)[j] \in UnknownModules
       \/ Get(ModulesOf(config)[j], "type") = S("header")

\* the layer is the generic rectangle of module m, drawn at height y
Placeholder(layer, m, y) ==
  /\ Get(layer, "_class") = S("rectangle")
  /\ Get(layer, "name") = Get(m, "type")
  /\ Get(Get(layer, "frame"), "x") = Num(16)
  /\ Get(Get(layer, "frame"), "y") = y
  /\ Get(Get(layer, "frame"), "height") = OrElse(Get(m, "height"), Num(100))

\* C25: a module of unknown type does not abort the assembly: a document
\* is returned, the module gives one generic rectangle at the cursor, the
\* modules after it are assembled, and the document validates clean.
C25_UnknownTypeFallsBack ==
  vout.called /\ vin.kind = "config" /\ StartsUnknown(vin.v.config)
    => /\ ~vout.t
       /\ LET modules == ModulesOf(vin.v.config)
              layers == LayersOfArtboard(vout.v.doc)
          IN /\ Len(layers) >= 1 + Len(modules)
             /\ Placeholder(layers[2], modules[1], Num(0))
             /\ Cardinality({i \in DOMAIN layers :
                               Get(layers[i], "name") = Get(modules[1], "type")})
                  = Cardinality({j \in DOMAIN modules : modules[j] \in UnknownModules})
             /\ Len(modules) = 2 /\ modules[2] \in KnownModules
                  => Get(layers[3], "name") = S("Header")
       /\ GraphViolations(vout.v.doc) = <<>>

\* the module list of the config is empty or absent
NoModules(config) ==
  Get(config, "modules") = Undef \/ Get(config, "modules") = Arr(<<>>)

\* C26: the document generateSketchJSON returns has one page, whose only
\* child is an artboard; for an empty module list the only child of the
\* artboard is the background rectangle and the document validates clean.
C26_OnePageOneArtboard ==
  vout.called /\ ~vout.t /\ vin.kind = "config"
    => LET pages == Get(vout.v.doc, "pages")
           children == Get(pages.a[1], "layers")
       IN /\ IsArray(pages) /\ Len(pages.a) = 1
          /\ Get(pages.a[1], "_class") = S("page")
          /\ IsArray(children) /\ Len(children.a) = 1
          /\ Get(children.a[1], "_class") = S("artboard")
          /\ NoModules(vin.v.config)
               => /\ Len(LayersOfArtboard(vout.v.doc)) = 1
                  /\ BackgroundFirst(ArtboardOf(vout.v.doc), BackgroundOf(vin.v.config))
                  /\ GraphViolations(vout.v.doc) = <<>>

\* C28: generateSketchJSON leaves its config as it was, and a second call
\* with the same config object returns the same document as the first
\* (both calls drawing the same identifiers).
C28_ConfigUnchanged ==
  vout.called /\ ~vout.t /\ vin.kind = "config"
    => /\ vout.v.config = vin.v.config
       /\ vout.v.again = vout.v.doc

\* where the full-width rectangle of the first module ends, and where the
\* generic rectangle of the module after it starts
FirstBottom(layers) ==
  NumAdd(Get(Get(layers[2], "frame"), "y"), Get(Get(layers[2], "frame"), "height"))
LastTop(layers) == Get(Get(layers[Len(layers)], "frame"), "y")

\* a module whose first layer is the full-width rectangle at the cursor,
\* followed by a module of unknown type
CursorPair(config) ==
  /\ IsArray(Get(config, "modules"))
  /\ Len(ModulesOf(config)) = 2
  /\ Get(ModulesOf(config)[1], "type") \in CursorTypes
  /\ ModulesOf(config)[2] \in UnknownModules

\* C29: the rectangle a module draws at the cursor is as high as the
\* cursor advances for the module: the rectangle of the next module starts
\* where it ends.
C29_CursorAdvancesByHeight ==
  vout.called /\ ~vout.t /\ vin.kind = "config" /\ CursorPair(vin.v.config)
    => LET layers == LayersOfArtboard(vout.v.doc)
       IN /\ Get(Get(layers[2], "frame"), "y") = Num(0)
          /\ LastTop(layers) = FirstBottom(layers)

(***************************************************************************)
(* Properties of the layout validator, stated for SpecF                    *)
(***************************************************************************)

IsNumber(v) == v.k = "num" /\ v.d # 0

\* validate was asked to fix with the stack strategy, and did
StackFixed ==
  /\ vout.called /\ ~vout.t /\ vin.kind = "layout"
  /\ Get(vin.v.options, "autoFix") = JTrue
  /\ Get(vin.v.options, "fixStrategy") # S("grid")
  /\ vout.v.wasAutoFixed

\* C30: after a fix with the stack strategy every returned module has a
\* numeric y and bottom with bottom = y + height, the modules follow each
\* other from the padding on with at least the gap between them, and the
\* result reports no overlap.
C30_StackFixRemovesOverlaps ==
  StackFixed
    => LET given == vin.v.modules
           fixed == vout.v.modules
       IN /\ Len(fixed) = Len(given)
          /\ \A i \in DOMAIN fixed :
               /\ IsNumber(Get(fixed[i], "y")) /\ IsNumber(Get(fixed[i], "bottom"))
               /\ Get(fixed[i], "bottom")
                    = NumAdd(Get(fixed[i], "y"), Get(given[i], "height"))
          /\ Get(given[1], "y") = Undef => Get(fixed[1], "y") = Num(16)
          /\ \A i \in 1..(Len(fixed) - 1) :
               NumLe(NumAdd(ToNum(Get(fixed[i], "bottom")), Num(8)),
                     ToNum(Get(fixed[i + 1], "y")))
          /\ ~vout.v.hasOverlaps

====
